---- MODULE Spec2Model ----
(***************************************************************************)
(* Verification model of the simulation engine of skumyol/genai:           *)
(*   backend/database_manager.py      (DatabaseManager, the Store)         *)
(*   backend/agents/memory_agent.py   (MemoryAgent, the MemoryService)     *)
(*   backend/agents/dialogue_handler.py (DialogueHandler, DialogueEngine)  *)
(*   backend/llm_client.py            (call_llm)                           *)
(* None is modelled by the integer -1 for ids and by FALSE for timestamps  *)
(* (ended_at, last_summarized are "set" or "unset").                       *)
(***************************************************************************)
EXTENDS Integers, Sequences, FiniteSets, TLC

\* ------------------------------------------------------------------------
\* Bounds of the model
\* ------------------------------------------------------------------------
MaxId == 2

MaxAllocs == 3

MaxSessions == 2

MaxDialogues == 2

MaxMsgRows == 3

MaxAppends == 3

MaxCtx == 1

MaxMessages == 2

MaxTokens == 12

MaxFaults == 3

\* threads of _run_day_summarization the model lets start
MaxDayJobs == 2

\* characters of the largest roster a scheduled day begins with
MaxRoster == 3

\* items of the longest list parsed from an LLM response
MaxCsv == 1

\* character_limit of introduce_new_characters
CharacterLimit == 10

\* models in primary_models of a call_llm call (the model asked for and
\* its fallbacks)
NumModels == 2

\* max_retries of call_llm
LLMMaxRetries == 3

GoodbyeThreshold == 2

MaxRetries == 3

MaxRuns == 2

MaxLoopDays == 1

NumPhases == 2

MaxPairs == 2

None == -1

NoWriter == "nobody"

Entities == {"sessions", "dialogues", "messages"}

Threads == {"t1", "t2"}

NPCs == {"alice", "bob"}

Tasks == {"h1", "h2"}

Phases == {"morning"}

\* ------------------------------------------------------------------------
\* State
\* ------------------------------------------------------------------------
VARIABLES
  id_counters,   \* table id_counters: entity -> next_id, None when no row
  sessions,      \* table sessions: session_id -> row
  days,          \* table days: the Day row of a session's current day
  dialogues,     \* table dialogues: dialogue_id -> row
  messages,      \* table messages: message_id -> row
  dbWriter,      \* the connection holding SQLite's single write lock
  apc,           \* position of each thread inside _get_next_id / create_*
  aent,          \* entity argument of the thread's _get_next_id call
  acur,          \* local variable `current` of the thread's _get_next_id
  issued,        \* per entity, the values returned so far, in return order
  deletedDialogues, \* history: ids of the dialogue rows deleted so far
  current_session,  \* MemoryAgent.current_session (its session_id, or None)
  active_dialogues, \* MemoryAgent.active_dialogues: dialogue_id -> Dialogue object
  end_outcome,      \* history: the last MemoryAgent.end_dialogue call and its outcome
  npc_memories,     \* table npc_memories of the current session: npc_name -> row
  summarizing_npcs, \* MemoryAgent._summarizing_npcs
  mpc,              \* position of each thread inside _update_npc_memory
  mnpc,             \* npc_name argument of the thread's _update_npc_memory
  mloc,             \* local variable npc_memory of the thread
  jobs,             \* the summarization threads started so far, in start order
  appendCount,      \* history: number of _update_npc_memory calls so far
  overCount,        \* history: per NPC, number of appends that found the
                    \* buffer above max_context_length
  appended,         \* history: the (npc, dialogue) pairs an append has saved
  handlers,         \* per task, the locals of its execute_scheduled_dialogue call
  handler_active_dialogues, \* DialogueHandler._active_dialogues (set of keys)
  memory_lock,      \* holder of DialogueHandler._memory_lock
  faults_left,      \* storage errors the environment may still raise
  gl,               \* locals of the game loop thread (_game_loop / _run_game_session
                    \* and the GameLoopManager it drives)
  stop_event,       \* the threading.Event of the running loop
  mem_current_day,  \* MemoryAgent.current_session.current_day, None without session
  db_current_day,   \* column sessions.current_day of the session, None without row
  exec_log,         \* history: the dialogues the loop executed, in start order
  day_log,          \* history: per loop run, the days it ran to their end
  started_after_stop, \* history: what was started while stop_event was set
  dayjob,           \* the threads of _run_day_summarization started so far, in
                    \* start order: position, session, dd
  sessjob,          \* the thread of _run_session_summarization: position and
                    \* the sessions whose lines its source_text holds
  social,           \* per session and NPC, the columns opinion_on_npcs
                    \* and social_stance of its NPCMemory row
  flow,             \* run_day_cycle before its phases: the roster, the
                    \* active and passive lists, the schedule being built
  llm_call          \* locals of one call_llm call

storeVars == <<id_counters, sessions, days, dialogues, messages, dbWriter>>

allocVars == <<apc, aent, acur, issued, deletedDialogues>>

agentVars == <<current_session, active_dialogues, end_outcome>>

cmpVars == <<npc_memories, summarizing_npcs, mpc, mnpc, mloc, jobs,
             appendCount, overCount, appended>>

dlgVars == <<handlers, handler_active_dialogues, memory_lock, faults_left>>

loopVars == <<gl, stop_event, mem_current_day, db_current_day, exec_log,
              day_log, started_after_stop>>

dayVars == <<dayjob, sessjob>>

socVars == <<social>>

flowVars == <<flow, llm_call>>

vars == <<storeVars, allocVars, agentVars, cmpVars, dlgVars, loopVars, dayVars,
          socVars, flowVars>>

\* what the actions of each part of the model leave alone
idsFrame == <<agentVars, cmpVars, dlgVars, loopVars, dayVars, flowVars, socVars>>

memFrame == <<dbWriter, allocVars, cmpVars, dlgVars, loopVars,
              dayVars, flowVars, socVars>>

cmpFrame == <<storeVars, allocVars, agentVars, dlgVars, loopVars,
              dayVars, flowVars, socVars>>

dlgFrame == <<dbWriter, allocVars, cmpVars, loopVars, dayVars, flowVars, socVars>>

loopFrame == <<storeVars, allocVars, agentVars, cmpVars, dlgVars,
               dayVars, flowVars, socVars>>

dayFrame == <<id_counters, sessions, dialogues, messages, dbWriter, allocVars,
              agentVars, cmpVars, dlgVars, loopVars, socVars, flowVars>>

\* create_session leaves these alone; it seeds opinions
sessFrame == <<dbWriter, allocVars, cmpVars, dlgVars, loopVars, dayVars, flowVars>>

\* generate_message and the post-dialogue updates write opinions and stances
socFrame == <<dbWriter, allocVars, cmpVars, loopVars, dayVars, flowVars>>

\* ------------------------------------------------------------------------
\* Helpers
\* ------------------------------------------------------------------------
Max(S) == CHOOSE x \in S : \A y \in S : y <= x

Extend(f, k, v) == [x \in (DOMAIN f) \cup {k} |-> IF x = k THEN v ELSE f[x]]

Remove(f, K) == [x \in (DOMAIN f) \ K |-> f[x]]

SeqToSet(s) == {s[i] : i \in DOMAIN s}

\* Rows as the dataclasses build them (agents/dataclasses.py)
NewSession == [dialogue_ids |-> <<>>, reputations |-> {}, session_summary |-> {}]

NewDialogue(sid, ini, rec) ==
  [session_id |-> sid, initiator |-> ini, receiver |-> rec,
   ended_at |-> FALSE, message_ids |-> <<>>]

\* NPCMemory(): messages_summary is a sequence of chunks, a chunk being one
\* appended line [kind "line", n its append number], an LLM summary [kind
\* "summary", n its length] or the LLM client's fallback text [kind "fallback"];
\* dialogue_ids, a list without duplicates, is the set of its elements
NewNPCMemory ==
  [dialogue_ids |-> {}, messages_summary |-> <<>>, messages_summary_length |-> 0,
   last_summarized |-> FALSE]

NewMessage(did, snd, rcv, txt) ==
  [dialogue_id |-> did, sender |-> snd, receiver |-> rcv, message_text |-> txt]

\* locals of execute_scheduled_dialogue before the call (lines 268-273 give
\* the counters their start values); gen_failed, append_failed and created
\* are history: a generation call of this execution timed out or gave
\* invalid output, a message append of this execution failed on its last
\* retry, and the ids of the Dialogue rows this execution inserted;
\* abandoned holds the generate_message calls left running in their worker
\* thread by a timeout, each with the opinion write it still has to make;
\* rep_done is history too: the participants whose generate_reputation call
\* of this execution returned a value
NewCall ==
  [pc |-> "idle", initiator |-> "alice", responder |-> "bob", phase |-> "morning",
   dialogue |-> None, message_count |-> 0, total_tokens |-> 0,
   goodbye_count |-> 0, speaker_is_initiator |-> TRUE, attempt |-> 0,
   message_text |-> "none", gen_failed |-> FALSE, append_failed |-> FALSE,
   created |-> {}, rep_done |-> {}, abandoned |-> {}]

\* The numeric ids present in the table of an entity
RowIds(e) ==
  IF e = "dialogues" THEN DOMAIN dialogues
  ELSE IF e = "messages" THEN DOMAIN messages
  ELSE DOMAIN sessions

\* ------------------------------------------------------------------------
\* DatabaseManager._get_next_id
\* ------------------------------------------------------------------------
\* baseline: MAX(CAST(id AS INTEGER)) + 1 for dialogues and messages only
Baseline(e, dlgs, msgs) ==
  IF e = "dialogues" /\ DOMAIN dlgs # {} THEN Max(DOMAIN dlgs) + 1
  ELSE IF e = "messages" /\ DOMAIN msgs # {} THEN Max(DOMAIN msgs) + 1
  ELSE None

\* current after the alignment `if baseline is not None and baseline > current`
AlignedCurrent(e, cur, dlgs, msgs) ==
  LET b == Baseline(e, dlgs, msgs) IN IF b # None /\ b > cur THEN b ELSE cur

NextCounterStuck(current) == current

\* UPDATE id_counters SET next_id = current + 1
NextCounter(current) == current + 1

TotalIssued == Len(issued["sessions"]) + Len(issued["dialogues"]) + Len(issued["messages"])

\* INSERT OR IGNORE INTO id_counters: the first write statement of the
\* connection opens the write transaction, so it waits for the write lock.
GetNextId_Insert(t, e) ==
  /\ apc[t] = "idle"
  /\ dbWriter = NoWriter
  /\ TotalIssued + Cardinality({u \in Threads : apc[u] \in {"inserted", "selected"}}) < MaxAllocs
  /\ dbWriter' = t
  /\ id_counters' = [id_counters EXCEPT ![e] = IF @ = None THEN 0 ELSE @]
  /\ aent' = [aent EXCEPT ![t] = e]
  /\ apc' = [apc EXCEPT ![t] = "inserted"]
  /\ UNCHANGED <<sessions, days, dialogues, messages, acur, issued, deletedDialogues>>
  /\ UNCHANGED idsFrame

\* SELECT next_id, then the baseline alignment
GetNextId_Select(t) ==
  /\ apc[t] = "inserted"
  /\ acur' = [acur EXCEPT ![t] =
                AlignedCurrent(aent[t], id_counters[aent[t]], dialogues, messages)]
  /\ apc' = [apc EXCEPT ![t] = "selected"]
  /\ UNCHANGED <<storeVars, aent, issued, deletedDialogues>>
  /\ UNCHANGED idsFrame

\* UPDATE, commit (releases the write lock), return current
GetNextId_Update(t) ==
  /\ apc[t] = "selected"
  /\ id_counters' = [id_counters EXCEPT ![aent[t]] = NextCounter(acur[t])]
  /\ dbWriter' = NoWriter
  /\ issued' = [issued EXCEPT ![aent[t]] = Append(@, <<acur[t], t>>)]
  /\ apc' = [apc EXCEPT ![t] = "allocated"]
  /\ UNCHANGED <<sessions, days, dialogues, messages, aent, acur, deletedDialogues>>
  /\ UNCHANGED idsFrame

\* create_session / create_dialogue / create_message: INSERT of the row that
\* carries the allocated id, in a second connection (the row is attached to
\* the latest session or dialogue)
CreateRow(t) ==
  /\ apc[t] = "allocated"
  /\ dbWriter = NoWriter
  /\ \/ /\ aent[t] = "sessions"
        /\ sessions' = Extend(sessions, acur[t], NewSession)
        /\ UNCHANGED <<days, dialogues, messages>>
     \/ /\ aent[t] = "dialogues"
        /\ acur[t] \notin DOMAIN dialogues
        /\ DOMAIN sessions # {}
        /\ dialogues' = Extend(dialogues, acur[t],
                              NewDialogue(Max(DOMAIN sessions), "alice", "bob"))
        /\ UNCHANGED <<sessions, days, messages>>
     \/ /\ aent[t] = "messages"
        /\ acur[t] \notin DOMAIN messages
        /\ DOMAIN dialogues # {}
        /\ messages' = Extend(messages, acur[t],
                             NewMessage(Max(DOMAIN dialogues), "alice", "bob", "hello"))
        /\ UNCHANGED <<sessions, days, dialogues>>
  /\ apc' = [apc EXCEPT ![t] = "idle"]
  /\ UNCHANGED <<id_counters, dbWriter, aent, acur, issued, deletedDialogues>>
  /\ UNCHANGED idsFrame

\* the INSERT raises (no session to attach to, locked database, primary key
\* clash): the allocated id stays unused
CreateRowFails(t) ==
  /\ apc[t] = "allocated"
  /\ apc' = [apc EXCEPT ![t] = "idle"]
  /\ UNCHANGED <<storeVars, aent, acur, issued, deletedDialogues>>
  /\ UNCHANGED idsFrame

\* DatabaseManager.delete_session_data: messages -> dialogues -> session,
\* one transaction
DeleteSessionRows(sid, dlgs, msgs) ==
  LET gone == {d \in DOMAIN dlgs : dlgs[d].session_id = sid} IN
  [dlg |-> Remove(dlgs, gone),
   msg |-> Remove(msgs, {m \in DOMAIN msgs : msgs[m].dialogue_id \in gone})]

DbDeleteSession(sid) ==
  /\ dbWriter = NoWriter
  /\ sid \in DOMAIN sessions
  /\ LET r == DeleteSessionRows(sid, dialogues, messages) IN
       /\ dialogues' = r.dlg
       /\ messages' = r.msg
  /\ sessions' = Remove(sessions, {sid})
  /\ days' = Remove(days, {sid})
  /\ deletedDialogues' = deletedDialogues \cup
                          {d \in DOMAIN dialogues : dialogues[d].session_id = sid}
  /\ UNCHANGED <<id_counters, dbWriter, apc, aent, acur, issued>>
  /\ UNCHANGED idsFrame

\* deferred_routes.py checkpoint import: rows copied with their ids preserved
\* (INSERT OR REPLACE), the counters are not touched
ImportDialogue(sid, id) ==
  /\ dbWriter = NoWriter
  /\ sid \in DOMAIN sessions
  /\ id \notin DOMAIN dialogues
  /\ dialogues' = Extend(dialogues, id, NewDialogue(sid, "alice", "bob"))
  /\ UNCHANGED <<id_counters, sessions, days, messages, dbWriter, allocVars>>
  /\ UNCHANGED idsFrame

\* DatabaseManager.create_session with the session_id given by the caller
\* (the import route passes target_session_id): no id is allocated, the row
\* is written with INSERT OR REPLACE and the counters are not touched
CreateSessionWithId(sid) ==
  /\ dbWriter = NoWriter
  /\ sessions' = Extend(sessions, sid, NewSession)
  /\ UNCHANGED <<id_counters, days, dialogues, messages, dbWriter, allocVars>>
  /\ UNCHANGED idsFrame

StoreInit ==
  /\ id_counters = [e \in Entities |-> None]
  /\ sessions = <<>>
  /\ days = <<>>
  /\ dialogues = <<>>
  /\ messages = <<>>
  /\ dbWriter = NoWriter

\* no session, no NPCMemory row
SocInit == social = <<>>

\* no day cycle has begun and no LLM call is under way
FlowInit ==
  /\ flow = [pc |-> "idle", roster |-> <<>>, active |-> <<>>, passive |-> <<>>,
             phase |-> 1, idx |-> 1, pairs |-> {}, refused |-> {}]
  /\ llm_call = [pc |-> "idle", model |-> 1, retry |-> 0, tried |-> <<>>]

\* no day summarization thread is running
DayInit == dayjob = <<>> /\ sessjob = [pc |-> "idle", source |-> {}]

AllocInit ==
  /\ apc = [t \in Threads |-> "idle"]
  /\ aent = [t \in Threads |-> "sessions"]
  /\ acur = [t \in Threads |-> 0]
  /\ issued = [e \in Entities |-> <<>>]
  /\ deletedDialogues = {}

AgentInit ==
  /\ current_session = None
  /\ active_dialogues = <<>>
  /\ end_outcome = [dialogue |-> None, was_ended |-> FALSE, error |-> "none",
                    mutated |-> FALSE]

DlgInit ==
  /\ handlers = [t \in Tasks |-> NewCall]
  /\ handler_active_dialogues = {}
  /\ memory_lock = NoWriter
  /\ faults_left = MaxFaults

LoopInit ==
  /\ gl = [pc |-> "idle", driver |-> "app", run |-> 0, num_days |-> 1,
           days_run |-> 0, current_day |-> 1, label |-> 1, phase |-> 1,
           pair |-> 1, schedule |-> [ph \in 1..NumPhases |-> 0],
           done_phases |-> {}]
  /\ stop_event = FALSE
  /\ mem_current_day = None
  /\ db_current_day = None
  /\ exec_log = <<>>
  /\ day_log = <<>>
  /\ started_after_stop = {}

CmpInit ==
  /\ npc_memories = <<>>
  /\ summarizing_npcs = {}
  /\ mpc = [t \in Threads |-> "idle"]
  /\ mnpc = [t \in Threads |-> "alice"]
  /\ mloc = [t \in Threads |-> NewNPCMemory]
  /\ jobs = <<>>
  /\ appendCount = 0
  /\ overCount = [n \in NPCs |-> 0]
  /\ appended = {}

InitIds == StoreInit /\ AllocInit /\ AgentInit /\ CmpInit /\ DlgInit /\ LoopInit /\ DayInit /\ SocInit /\ FlowInit

NextIds ==
  \/ \E t \in Threads, e \in Entities : GetNextId_Insert(t, e)
  \/ \E t \in Threads : GetNextId_Select(t)
  \/ \E t \in Threads : GetNextId_Update(t)
  \/ \E t \in Threads : CreateRow(t)
  \/ \E t \in Threads : CreateRowFails(t)
  \/ \E s \in 0..MaxId : DbDeleteSession(s)
  \/ \E id \in 0..MaxId : ImportDialogue(Max(DOMAIN sessions \cup {0}), id)

SpecIds == InitIds /\ [][NextIds]_vars

\* one thread allocates while sessions are created under ids of the caller's
\* choice and dialogues are imported with their ids
NextImport ==
  \/ \E e \in Entities : GetNextId_Insert("t1", e)
  \/ GetNextId_Select("t1")
  \/ GetNextId_Update("t1")
  \/ CreateRow("t1")
  \/ CreateRowFails("t1")
  \/ \E s \in 0..MaxId : CreateSessionWithId(s)
  \/ \E id \in 0..MaxId : ImportDialogue(Max(DOMAIN sessions \cup {0}), id)

SpecImport == InitIds /\ [][NextImport]_vars

\* ------------------------------------------------------------------------
\* MemoryAgent: sessions, dialogues, messages (agents/memory_agent.py)
\* ------------------------------------------------------------------------
\* the value one complete _get_next_id call returns in the current state
AllocId(e) ==
  AlignedCurrent(e, IF id_counters[e] = None THEN 0 ELSE id_counters[e],
                 dialogues, messages)

\* id_counters after that call
CounterAfter(e) == [id_counters EXCEPT ![e] = NextCounter(AllocId(e))]

\* a Day row as create_day inserts it
NewDay == [dialogue_ids |-> <<>>]

\* start_dialogue, lines 198-216: get_day, create_day when there is no row,
\* the id appended unless listed, update_day
WithDayDialogue(ds, sid, did) ==
  LET row == IF sid \in DOMAIN ds THEN ds[sid] ELSE NewDay IN
  Extend(ds, sid,
         IF did \in SeqToSet(row.dialogue_ids) THEN row
         ELSE [row EXCEPT !.dialogue_ids = Append(@, did)])

\* update_session: UPDATE sessions ... WHERE session_id (no row, no effect)
WithSessionDialogue(sess, sid, did) ==
  IF sid \in DOMAIN sess /\ did \notin SeqToSet(sess[sid].dialogue_ids)
  THEN [sess EXCEPT ![sid].dialogue_ids = Append(@, did)]
  ELSE sess

\* update_dialogue: UPDATE dialogues SET ended_at, message_ids ... WHERE
\* dialogue_id, from the in-memory object (no row, no effect)
WithDialogueUpdate(dlgs, did, obj) ==
  IF did \in DOMAIN dlgs
  THEN [dlgs EXCEPT ![did].ended_at = obj.ended_at,
                    ![did].message_ids = obj.message_ids]
  ELSE dlgs

\* MemoryAgent.create_session (session_id None: allocated)
\* seed_neutral_opinions: every NPC of the character list gets the opinion
\* "Neutral" on every other one; no stance is seeded
SeededSocial ==
  [n \in NPCs |-> [opinion_on_npcs |-> [m \in NPCs \ {n} |-> "Neutral"],
                   social_stance |-> {}]]

\* update_npc_opinion and update_npc_social_stance: return without a current
\* session, else read the row (or build one), set the key, write the row
WithOpinion(soc, sid, n, target, opinion) ==
  IF sid = None \/ sid \notin DOMAIN soc THEN soc
  ELSE [soc EXCEPT ![sid][n].opinion_on_npcs =
          [m \in DOMAIN @ \cup {target} |-> IF m = target THEN opinion ELSE @[m]]]

WithStance(soc, sid, n, target) ==
  IF sid = None \/ sid \notin DOMAIN soc THEN soc
  ELSE [soc EXCEPT ![sid][n].social_stance = @ \cup {target}]

MA_CreateSession ==
  /\ AllocId("sessions") < MaxSessions
  /\ social' = Extend(social, AllocId("sessions"), SeededSocial)
  /\ id_counters' = CounterAfter("sessions")
  /\ sessions' = Extend(sessions, AllocId("sessions"), NewSession)
  /\ UNCHANGED days
  /\ current_session' = AllocId("sessions")
  /\ UNCHANGED <<dialogues, messages, active_dialogues, end_outcome>>

\* MemoryAgent.load_session
MA_LoadSession(sid) ==
  /\ sid \in DOMAIN sessions
  /\ current_session' = sid
  /\ UNCHANGED <<id_counters, sessions, days, dialogues, messages, active_dialogues, end_outcome>>

\* MemoryAgent.start_dialogue. fault names the storage call that raises:
\* "none", "create_dialogue" (before the row is inserted) or "update_session"
\* (after the row is inserted and cached).  The outcome is the record
\* [ok, id]; the state change is on the primed variables.
StartDialogueResult(ini, rec, fault) ==
  LET did == AllocId("dialogues")
      row == NewDialogue(current_session, ini, rec)
  IN  IF current_session = None \/ fault = "create_dialogue"
      THEN [ok |-> FALSE, id |-> None, ids |-> id_counters, dlgs |-> dialogues,
            cache |-> active_dialogues, sess |-> sessions, days |-> days]
      ELSE [ok |-> fault = "none", id |-> did,
            ids |-> CounterAfter("dialogues"),
            dlgs |-> Extend(dialogues, did, row),
            cache |-> Extend(active_dialogues, did, row),
            sess |-> IF fault = "update_session" THEN sessions
                     ELSE WithSessionDialogue(sessions, current_session, did),
            days |-> IF fault = "update_session" THEN days
                     ELSE WithDayDialogue(days, current_session, did)]

\* MemoryAgent.add_message. fault names the storage call that raises: "none",
\* "create_message" (before the message row is inserted), "update_dialogue"
\* (row inserted, id appended to the in-memory object, UPDATE raises) or
\* "npc_memory" (dialogue row updated, _update_npc_memory raises).
\* `if dialogue_id not in self.active_dialogues`: a cached dialogue is used
\* without reading its row; an uncached one is loaded from the table
\* append_session_summary, lines 976-983: the line goes to the summary of
\* the current session, whose row update_session rewrites; session_summary
\* is modelled by the set of sessions whose dialogue lines the text holds
WithSessionLine(sess, sid) ==
  IF sid \in DOMAIN sess THEN [sess EXCEPT ![sid].session_summary = @ \cup {sid}]
  ELSE sess

AddMessageFound(did) ==
  did \in DOMAIN active_dialogues \/ did \in DOMAIN dialogues

AddMessageResult(did, snd, rcv, txt, fault) ==
  LET loaded == did \notin DOMAIN active_dialogues
      cache1 == IF loaded THEN Extend(active_dialogues, did, dialogues[did])
                ELSE active_dialogues
      sess1  == IF loaded /\ current_session # None
                THEN WithSessionDialogue(sessions, current_session, did)
                ELSE sessions
      mid    == AllocId("messages")
      obj1   == [cache1[did] EXCEPT !.message_ids = Append(@, mid)]
      cache2 == [cache1 EXCEPT ![did] = obj1]
  IN  IF ~AddMessageFound(did)
      THEN [ok |-> FALSE, id |-> None, ids |-> id_counters, msgs |-> messages,
            dlgs |-> dialogues, cache |-> active_dialogues, sess |-> sessions]
      ELSE IF fault = "create_message"
      THEN [ok |-> FALSE, id |-> None, ids |-> id_counters, msgs |-> messages,
            dlgs |-> dialogues, cache |-> cache1, sess |-> sess1]
      ELSE [ok |-> fault = "none", id |-> mid,
            ids |-> CounterAfter("messages"),
            msgs |-> Extend(messages, mid, NewMessage(did, snd, rcv, txt)),
            dlgs |-> IF fault = "update_dialogue" THEN dialogues
                     ELSE WithDialogueUpdate(dialogues, did, obj1),
            cache |-> cache2,
            sess |-> IF fault = "none" THEN WithSessionLine(sess1, current_session)
                     ELSE sess1]

\* MemoryAgent.end_dialogue. fault: "none" or "update_dialogue" (ended_at is
\* already set on the in-memory object, the UPDATE raises, the object stays
\* cached).  error is the exception the call raises: "ValueError" for an id
\* that is not cached, "StorageError" for the raising UPDATE, "none".
EndDialogueResult(did, fault) ==
  IF did \notin DOMAIN active_dialogues
  THEN [ok |-> FALSE, dlgs |-> dialogues, cache |-> active_dialogues,
        error |-> "ValueError"]
  ELSE LET obj == [active_dialogues[did] EXCEPT !.ended_at = TRUE] IN
       IF fault = "update_dialogue"
       THEN [ok |-> FALSE, dlgs |-> dialogues,
             cache |-> [active_dialogues EXCEPT ![did] = obj],
             error |-> "StorageError"]
       ELSE [ok |-> TRUE, dlgs |-> WithDialogueUpdate(dialogues, did, obj),
             cache |-> Remove(active_dialogues, {did}), error |-> "none"]

\* the stored row of the dialogue has ended_at set
EndedInStore(did) == did \in DOMAIN dialogues /\ dialogues[did].ended_at

\* what an end_dialogue call on did with result r did
EndOutcome(did, r) ==
  [dialogue |-> did, was_ended |-> EndedInStore(did), error |-> r.error,
   mutated |-> (r.dlgs # dialogues \/ r.cache # active_dialogues)]

\* the three calls as steps of their own, as the HTTP routes of app.py and
\* deferred_routes.py make them
MA_StartDialogue(ini, rec) ==
  /\ ini # rec
  /\ AllocId("dialogues") < MaxDialogues
  /\ LET r == StartDialogueResult(ini, rec, "none") IN
       /\ r.ok
       /\ id_counters' = r.ids
       /\ dialogues' = r.dlgs
       /\ active_dialogues' = r.cache
       /\ sessions' = r.sess
       /\ days' = r.days
  /\ UNCHANGED <<messages, current_session, end_outcome>>

MA_AddMessage(did, snd, rcv, txt) ==
  /\ snd # rcv
  /\ AllocId("messages") < MaxMsgRows
  /\ LET r == AddMessageResult(did, snd, rcv, txt, "none") IN
       /\ r.ok
       /\ id_counters' = r.ids
       /\ messages' = r.msgs
       /\ dialogues' = r.dlgs
       /\ active_dialogues' = r.cache
       /\ sessions' = r.sess
  /\ UNCHANGED <<days, current_session, end_outcome>>

MA_EndDialogue(did) ==
  /\ LET r == EndDialogueResult(did, "none") IN
       /\ dialogues' = r.dlgs
       /\ active_dialogues' = r.cache
       /\ end_outcome' = EndOutcome(did, r)
  /\ UNCHANGED <<id_counters, sessions, days, messages, current_session>>

MemCreateSession == MA_CreateSession /\ UNCHANGED sessFrame

MemLoadSession == \E s \in DOMAIN sessions : MA_LoadSession(s) /\ UNCHANGED memFrame

MemStartDialogue == MA_StartDialogue("alice", "bob") /\ UNCHANGED memFrame

MemAddMessage ==
  \E d \in 0..(MaxDialogues - 1), txt \in {"hello"} :
    MA_AddMessage(d, "alice", "bob", txt) /\ UNCHANGED memFrame

MemEndDialogue == \E d \in 0..(MaxDialogues - 1) : MA_EndDialogue(d) /\ UNCHANGED memFrame

MemDeleteSession == \E s \in DOMAIN sessions : DbDeleteSession(s)

InitMemory == StoreInit /\ AllocInit /\ AgentInit /\ CmpInit /\ DlgInit /\ LoopInit /\ DayInit /\ SocInit /\ FlowInit

NextMemory ==
  \/ MemCreateSession
  \/ MemLoadSession
  \/ MemStartDialogue
  \/ MemAddMessage
  \/ MemEndDialogue
  \/ MemDeleteSession

SpecMemory == InitMemory /\ [][NextMemory]_vars

\* C3: once ended_at of a dialogue row is set, its message_ids never change
\* again (no later append to that dialogue id succeeds).
C3_EndedDialogueFrozen ==
  [][\A d \in DOMAIN dialogues :
       (dialogues[d].ended_at /\ d \in DOMAIN dialogues')
         => dialogues'[d].message_ids = dialogues[d].message_ids]_vars

\* C6: every persisted message belongs to an existing dialogue row whose
\* message_ids contains the id of the message.
C6_MessagesBelong ==
  \A m \in DOMAIN messages :
    /\ messages[m].dialogue_id \in DOMAIN dialogues
    /\ m \in SeqToSet(dialogues[messages[m].dialogue_id].message_ids)

\* ------------------------------------------------------------------------
\* MemoryAgent: Day rows and their background summarization
\* ------------------------------------------------------------------------
\* MemoryAgent.create_day: INSERT ... ON CONFLICT(session_id, day) DO UPDATE
\* of time_period, active_npcs and passive_npcs; dialogue_ids of an existing
\* row are not in the SET list
MA_CreateDay ==
  /\ current_session # None
  /\ days' = IF current_session \in DOMAIN days THEN days
             ELSE Extend(days, current_session, NewDay)
  /\ UNCHANGED <<dayjob, sessjob>>
  /\ UNCHANGED dayFrame

\* the message rows of the dialogues of session sid: add_message calls
\* append_day_summary once for each of them
SessionMessages(sid) ==
  {m \in DOMAIN messages :
     /\ messages[m].dialogue_id \in DOMAIN dialogues
     /\ dialogues[messages[m].dialogue_id].session_id = sid}

\* the session has a message, so append_day_summary has written day_summary
HasDaySummary(sid) == sid \in DOMAIN days /\ SessionMessages(sid) # {}

\* MemoryAgent._summarizing_days(): hasattr is asked for the literal name
\* "__summarizing_days_cache", while the assignment in the class body stores
\* the attribute under the mangled name _MemoryAgent__summarizing_days_cache;
\* hasattr is False on every call, which assigns a new empty set and returns it
SummarizingDays == {}

\* the threads of _run_day_summarization started for session sid
DayJobsOf(sid) == {j \in DOMAIN dayjob : dayjob[j].session = sid}

\* _summarize_day_memory, called by an append_day_summary that found the
\* summary above max_context_length: the test of the marker, the read of
\* the Day row, the add to the set just returned, the start of the thread
DayJob_Start ==
  /\ Len(dayjob) < MaxDayJobs
  /\ current_session # None
  /\ Cardinality(DayJobsOf(current_session)) < Cardinality(SessionMessages(current_session))
  /\ current_session \notin SummarizingDays
  /\ HasDaySummary(current_session)
  /\ dayjob' = Append(dayjob, [pc |-> "llm", session |-> current_session, dd |-> <<>>])
  /\ UNCHANGED <<days, sessjob>>
  /\ UNCHANGED dayFrame

\* _run_day_summarization: call_llm has returned; dd = get_day(session, day)
DayJob_Read(j) ==
  /\ dayjob[j].pc = "llm"
  /\ dayjob' = IF dayjob[j].session \in DOMAIN days
               THEN [dayjob EXCEPT ![j].pc = "commit",
                                   ![j].dd = days[dayjob[j].session].dialogue_ids]
               ELSE [dayjob EXCEPT ![j].pc = "finally"]
  /\ UNCHANGED <<days, sessjob>>
  /\ UNCHANGED dayFrame

\* `with self._storage_lock: dd.day_summary = ...; update_day(dd)`: the UPDATE
\* writes every column of the row from dd, dialogue_ids included
DayJob_Commit(j) ==
  /\ dayjob[j].pc = "commit"
  /\ days' = IF dayjob[j].session \in DOMAIN days
             THEN [days EXCEPT ![dayjob[j].session].dialogue_ids = dayjob[j].dd]
             ELSE days
  /\ dayjob' = [dayjob EXCEPT ![j].pc = "finally"]
  /\ UNCHANGED sessjob
  /\ UNCHANGED dayFrame

\* finally: discard of the key from the set _summarizing_days() returns
DayJob_Finally(j) ==
  /\ dayjob[j].pc = "finally"
  /\ dayjob' = [dayjob EXCEPT ![j].pc = "done"]
  /\ UNCHANGED <<days, sessjob>>
  /\ UNCHANGED dayFrame

InitDays == StoreInit /\ AllocInit /\ AgentInit /\ CmpInit /\ DlgInit /\ LoopInit /\ DayInit /\ SocInit /\ FlowInit

NextDays ==
  \/ MemCreateSession
  \/ MA_CreateDay
  \/ MemStartDialogue
  \/ MemAddMessage
  \/ DayJob_Start
  \/ \E j \in DOMAIN dayjob : DayJob_Read(j)
  \/ \E j \in DOMAIN dayjob : DayJob_Commit(j)
  \/ \E j \in DOMAIN dayjob : DayJob_Finally(j)

SpecDays == InitDays /\ [][NextDays]_vars

\* ------------------------------------------------------------------------
\* MemoryAgent: NPC memory buffers and their background summarization
\* ------------------------------------------------------------------------
\* len() of one chunk, in units of one appended line
ChunkLen(c) == IF c.kind = "summary" THEN c.n ELSE 1

RECURSIVE TextLen(_)
\* len(npc_memory.messages_summary)
TextLen(buf) == IF buf = <<>> THEN 0 ELSE ChunkLen(Head(buf)) + TextLen(Tail(buf))

\* the replies the summarizing LLM can give: empty, short, or longer than
\* max_context_length (the prompt asks for MEMORY_SUMMARY_MAX_CHARS, default
\* 2000, whatever max_context_length is; nothing truncates the reply)
SummaryLens == {0, 1, MaxCtx + 1}

SummaryText(n) == IF n = 0 THEN <<>> ELSE <<[kind |-> "summary", n |-> n]>>

FallbackText == <<[kind |-> "fallback", n |-> 1]>>

\* _update_npc_memory, lines 344-363: read the row (or build a new one),
\* add the dialogue to dialogue_ids, append the line, recompute the length; then the threshold test of line 366
Upd_Read(t, n, d) ==
  /\ mpc[t] = "idle"
  /\ appendCount < MaxAppends
  /\ appendCount' = appendCount + 1
  /\ LET row == IF n \in DOMAIN npc_memories THEN npc_memories[n] ELSE NewNPCMemory
         buf == Append(row.messages_summary, [kind |-> "line", n |-> appendCount + 1])
         new == [row EXCEPT !.dialogue_ids = @ \cup {d},
                            !.messages_summary = buf,
                            !.messages_summary_length = TextLen(buf)]
     IN /\ mloc' = [mloc EXCEPT ![t] = new]
        /\ mpc' = [mpc EXCEPT ![t] =
                     IF new.messages_summary_length > MaxCtx THEN "summarize" ELSE "save"]
        /\ overCount' = [overCount EXCEPT ![n] =
                     IF new.messages_summary_length > MaxCtx THEN @ + 1 ELSE @]
  /\ mnpc' = [mnpc EXCEPT ![t] = n]
  /\ UNCHANGED <<npc_memories, summarizing_npcs, jobs, appended>>
  /\ UNCHANGED cmpFrame

\* _summarize_npc_memory, line 385: `if npc_name in self._summarizing_npcs`
Upd_Check(t) ==
  /\ mpc[t] = "summarize"
  /\ mpc' = [mpc EXCEPT ![t] =
               IF mnpc[t] \in summarizing_npcs THEN "save" ELSE "start"]
  /\ UNCHANGED <<npc_memories, summarizing_npcs, mnpc, mloc, jobs, appendCount, overCount, appended>>
  /\ UNCHANGED cmpFrame

\* _summarize_npc_memory, lines 387-396: mark the NPC and start the thread
\* on a copy of the buffer
Upd_Start(t) ==
  /\ mpc[t] = "start"
  /\ summarizing_npcs' = summarizing_npcs \cup {mnpc[t]}
  /\ jobs' = Append(jobs, [npc |-> mnpc[t], source_text |-> mloc[t].messages_summary,
                           pc |-> "llm", llm |-> "pending",
                           new_summary |-> <<>>, row |-> NewNPCMemory])
  /\ mpc' = [mpc EXCEPT ![t] = "save"]
  /\ UNCHANGED <<npc_memories, mnpc, mloc, appendCount, overCount, appended>>
  /\ UNCHANGED cmpFrame

\* _update_npc_memory, line 370: create_or_update_npc_memory (INSERT OR
\* REPLACE of the whole row from the local object)
Upd_Save(t) ==
  /\ mpc[t] = "save"
  /\ npc_memories' = Extend(npc_memories, mnpc[t], mloc[t])
  /\ appended' = appended \cup {<<mnpc[t], d>> : d \in mloc[t].dialogue_ids}
  /\ mpc' = [mpc EXCEPT ![t] = "idle"]
  /\ UNCHANGED <<summarizing_npcs, mnpc, mloc, jobs, appendCount, overCount>>
  /\ UNCHANGED cmpFrame

\* call_llm as _run_llm_summarization sees it: "ok" a reply of length n;
\* "fallback_text" every provider failed and the process is not interactive
\* (or the operator typed s), call_llm returns LLM_FALLBACK_TEXT;
\* "raised" every provider failed and call_llm raises RuntimeError
CallLLMOutcomes == {"ok", "fallback_text", "raised"}

LLMFailed(outcome) == outcome \in {"fallback_text", "raised"}

Job_CallLLM(j, outcome, n) ==
  /\ jobs[j].pc = "llm"
  /\ jobs' = [jobs EXCEPT ![j].llm = outcome,
                          ![j].new_summary =
                             IF outcome = "ok" THEN SummaryText(n)
                             ELSE IF outcome = "fallback_text" THEN FallbackText
                             ELSE <<>>,
                          ![j].pc = IF outcome = "raised" THEN "finally" ELSE "read"]
  /\ UNCHANGED <<npc_memories, summarizing_npcs, mpc, mnpc, mloc, appendCount, overCount, appended>>
  /\ UNCHANGED cmpFrame

\* line 421: npc_memory = self.get_npc_memory(npc_name), outside the lock
Job_Read(j) ==
  /\ jobs[j].pc = "read"
  /\ jobs' = IF jobs[j].npc \in DOMAIN npc_memories
             THEN [jobs EXCEPT ![j].row = npc_memories[jobs[j].npc], ![j].pc = "commit"]
             ELSE [jobs EXCEPT ![j].pc = "finally"]
  /\ UNCHANGED <<npc_memories, summarizing_npcs, mpc, mnpc, mloc, appendCount, overCount, appended>>
  /\ UNCHANGED cmpFrame

\* a commit that would replace the buffer and leave the stored length alone
SummarizedRowStaleLength(row, new_summary) ==
  [row EXCEPT !.messages_summary = new_summary,
              !.last_summarized = TRUE]

\* the row _run_llm_summarization writes, lines 424-426
SummarizedRow(row, new_summary) ==
  [row EXCEPT !.messages_summary = new_summary,
              !.messages_summary_length = TextLen(new_summary),
              !.last_summarized = TRUE]

\* lines 423-435: under _storage_lock, replace the buffer and stamp
\* last_summarized; update_npc_dialogue_summary then rewrites the row it
\* has just read, which changes none of the modelled columns
Job_Commit(j) ==
  /\ jobs[j].pc = "commit"
  /\ npc_memories' = Extend(npc_memories, jobs[j].npc,
                            SummarizedRow(jobs[j].row, jobs[j].new_summary))
  /\ jobs' = [jobs EXCEPT ![j].pc = "finally"]
  /\ UNCHANGED <<summarizing_npcs, mpc, mnpc, mloc, appendCount, overCount, appended>>
  /\ UNCHANGED cmpFrame

\* lines 444-448: finally: self._summarizing_npcs.discard(npc_name)
Job_Finally(j) ==
  /\ jobs[j].pc = "finally"
  /\ summarizing_npcs' = summarizing_npcs \ {jobs[j].npc}
  /\ jobs' = [jobs EXCEPT ![j].pc = "done"]
  /\ UNCHANGED <<npc_memories, mpc, mnpc, mloc, appendCount, overCount, appended>>
  /\ UNCHANGED cmpFrame

InitCompress == StoreInit /\ AllocInit /\ AgentInit /\ CmpInit /\ DlgInit /\ LoopInit /\ DayInit /\ SocInit /\ FlowInit

NextCompress ==
  \/ \E t \in Threads, n \in NPCs : Upd_Read(t, n, 0)
  \/ \E t \in Threads : Upd_Check(t)
  \/ \E t \in Threads : Upd_Start(t)
  \/ \E t \in Threads : Upd_Save(t)
  \/ \E j \in DOMAIN jobs, o \in CallLLMOutcomes, n \in SummaryLens : Job_CallLLM(j, o, n)
  \/ \E j \in DOMAIN jobs : Job_Read(j)
  \/ \E j \in DOMAIN jobs : Job_Commit(j)
  \/ \E j \in DOMAIN jobs : Job_Finally(j)

SpecCompress == InitCompress /\ [][NextCompress]_vars

\* the thread of the game loop appends for the dialogues it executes, one
\* _update_npc_memory call at a time, while the summarization threads run
LoopThread == "t1"

InitLinks == StoreInit /\ AllocInit /\ AgentInit /\ CmpInit /\ DlgInit /\ LoopInit /\ DayInit /\ SocInit /\ FlowInit

NextLinks ==
  \/ \E n \in NPCs, d \in 0..(MaxDialogues - 1) : Upd_Read(LoopThread, n, d)
  \/ Upd_Check(LoopThread)
  \/ Upd_Start(LoopThread)
  \/ Upd_Save(LoopThread)
  \/ \E j \in DOMAIN jobs, o \in CallLLMOutcomes, n \in SummaryLens : Job_CallLLM(j, o, n)
  \/ \E j \in DOMAIN jobs : Job_Read(j)
  \/ \E j \in DOMAIN jobs : Job_Commit(j)
  \/ \E j \in DOMAIN jobs : Job_Finally(j)

SpecLinks == InitLinks /\ [][NextLinks]_vars

\* ------------------------------------------------------------------------
\* MemoryAgent: the session summary and its background summarization
\* ------------------------------------------------------------------------
\* the store and agent variables a step of the session job leaves alone
sessJobFrame == <<id_counters, days, dialogues, messages, dbWriter, dayjob,
                  allocVars, agentVars, cmpVars, dlgVars, loopVars, socVars,
                  flowVars>>

\* _summarize_session_memory, called by an append_session_summary that found
\* the summary above max_context_length: the flag _summarizing_session is
\* set and the thread is started on the text of the current session
SessJob_Start ==
  /\ sessjob.pc = "idle"
  /\ current_session \in DOMAIN sessions
  /\ sessions[current_session].session_summary # {}
  /\ sessjob' = [pc |-> "llm", source |-> sessions[current_session].session_summary]
  /\ UNCHANGED sessions
  /\ UNCHANGED sessJobFrame

\* the text call_llm gives the session job, by the sessions it derives from
SessionSummaryText(outcome) == IF outcome = "ok" THEN sessjob.source ELSE {}

\* _run_session_summarization, lines 1022-1025: the summary is assigned to
\* self.current_session, whichever session that is by now, and update_session
\* writes that row
CommittedToCurrent(sess, outcome) ==
  IF current_session \in DOMAIN sess
  THEN [sess EXCEPT ![current_session].session_summary = SessionSummaryText(outcome)]
  ELSE sess

\* _run_session_summarization, lines 1020-1027: call_llm returns or raises;
\* a returned text is committed under _storage_lock
SessJob_Commit(outcome) ==
  /\ sessjob.pc = "llm"
  /\ sessions' = IF outcome = "raised" THEN sessions
                 ELSE CommittedToCurrent(sessions, outcome)
  /\ sessjob' = [sessjob EXCEPT !.pc = "finally"]
  /\ UNCHANGED sessJobFrame

\* finally: self._summarizing_session = False
SessJob_Finally ==
  /\ sessjob.pc = "finally"
  /\ sessjob' = [pc |-> "idle", source |-> {}]
  /\ UNCHANGED sessions
  /\ UNCHANGED sessJobFrame

\* sessions created and loaded, dialogues and messages, and the session job
NextSessJob ==
  \/ MemCreateSession
  \/ MemLoadSession
  \/ MemStartDialogue
  \/ MemAddMessage
  \/ SessJob_Start
  \/ \E o \in CallLLMOutcomes : SessJob_Commit(o)
  \/ SessJob_Finally

SpecSessJob == InitMemory /\ [][NextSessJob]_vars

\* ------------------------------------------------------------------------
\* DialogueHandler.execute_scheduled_dialogue (agents/dialogue_handler.py)
\* ------------------------------------------------------------------------
\* dialogue_key = f"{initiator_name}_{responder_name}_{phase}"
DialogueKey(ini, rec, phase) == ini \o "_" \o rec \o "_" \o phase

KeyOf(h) == DialogueKey(h.initiator, h.responder, h.phase)

\* the texts a turn can carry: what the NPC agent says, with or without a
\* goodbye phrase, and the handler's "I need to go now. Goodbye!"
Words(text) ==
  IF text = "chat" THEN 3 ELSE IF text = "farewell" THEN 2
  ELSE IF text = "fallback" THEN 6 ELSE 0

\* count_tokens: int(len(text.split()) * 1.3)
count_tokens(text) == (Words(text) * 13) \div 10

\* _contains_goodbye
ContainsGoodbye(text) == text \in {"farewell", "fallback"}

Speaker(h) == IF h.speaker_is_initiator THEN h.initiator ELSE h.responder

Listener(h) == IF h.speaker_is_initiator THEN h.responder ELSE h.initiator

\* the call has passed the duplicate test and not yet left through finally
InProgress(h) ==
  h.pc \in {"start", "validate_new", "loop", "generate", "append",
            "fallback_append", "end", "cleanup", "post_updates"}

\* dialogue.ended_at of the handler's object, which is the object
\* MemoryAgent caches until end_dialogue succeeds
ObjEnded(did) ==
  did \notin DOMAIN active_dialogues \/ active_dialogues[did].ended_at

\* _validate_dialogue_state; read_fails: get_dialogue raises or exceeds 5 s
ValidateDialogueState(did, read_fails) ==
  /\ ~ObjEnded(did)
  /\ ~read_fails
  /\ did \in DOMAIN dialogues

\* one more attempt of a retry_on_failure(max_retries=3) call is left
CanRetry(h) == h.attempt + 1 < MaxRetries

\* the asyncio lock is free, or the task is between two attempts under it
LockFor(t) == memory_lock \in {NoWriter, t}

\* a finally clause that would leave the key in the set
DiscardSkipped(keys, h) == keys

\* lines 424-426, finally: self._active_dialogues.discard(dialogue_key)
Discarded(keys, h) == keys \ {KeyOf(h)}

\* a storage error is raised only while the environment has some left
FaultAllowed(fault) == fault = "none" \/ faults_left > 0

FaultsAfter(fault) == IF fault = "none" THEN faults_left ELSE faults_left - 1

\* lines 236-246: parameter validation, duplicate test, registration
Exec_Request(t, ini, rec, phase) ==
  /\ handlers[t].pc = "idle"
  /\ LET h   == [handlers[t] EXCEPT !.initiator = ini, !.responder = rec,
                                    !.phase = phase]
         key == DialogueKey(ini, rec, phase)
     IN IF ini = rec
        THEN /\ handlers' = [handlers EXCEPT ![t] = [h EXCEPT !.pc = "value_error"]]
             /\ UNCHANGED handler_active_dialogues
        ELSE IF key \in handler_active_dialogues
        THEN /\ handlers' = [handlers EXCEPT ![t] = [h EXCEPT !.pc = "refused"]]
             /\ UNCHANGED handler_active_dialogues
        ELSE /\ handlers' = [handlers EXCEPT ![t] = [h EXCEPT !.pc = "start"]]
             /\ handler_active_dialogues' = handler_active_dialogues \cup {key}
  /\ UNCHANGED <<storeVars, agentVars, memory_lock, faults_left>>
  /\ UNCHANGED dlgFrame

\* lines 250-255: one attempt of _safe_start_dialogue under the memory lock;
\* after the last failed attempt dialogue is None, the except branch has
\* nothing to clean up, raises DialogueHandlerError, finally discards the key
Exec_Start(t, fault) ==
  /\ handlers[t].pc = "start"
  /\ LockFor(t)
  /\ FaultAllowed(fault)
  /\ AllocId("dialogues") < MaxDialogues
  /\ LET h == handlers[t]
         r == StartDialogueResult(h.initiator, h.responder, fault)
         made == IF r.id = None THEN h.created ELSE h.created \cup {r.id}
     IN /\ id_counters' = r.ids
        /\ dialogues' = r.dlgs
        /\ active_dialogues' = r.cache
        /\ sessions' = r.sess
        /\ days' = r.days
        /\ IF r.ok
           THEN /\ handlers' = [handlers EXCEPT ![t] =
                     [h EXCEPT !.pc = "validate_new", !.dialogue = r.id,
                               !.created = made, !.attempt = 0]]
                /\ memory_lock' = NoWriter
                /\ UNCHANGED handler_active_dialogues
           ELSE IF CanRetry(h)
           THEN /\ handlers' = [handlers EXCEPT ![t] =
                     [h EXCEPT !.created = made, !.attempt = @ + 1]]
                /\ memory_lock' = t
                /\ UNCHANGED handler_active_dialogues
           ELSE /\ handlers' = [handlers EXCEPT ![t] =
                     [h EXCEPT !.pc = "raised", !.created = made, !.attempt = 0]]
                /\ memory_lock' = NoWriter
                /\ handler_active_dialogues' = Discarded(handler_active_dialogues, h)
  /\ faults_left' = FaultsAfter(fault)
  /\ UNCHANGED <<messages, dbWriter, current_session, end_outcome>>
  /\ UNCHANGED dlgFrame

\* lines 256-273: validation right after creation; an invalid state makes
\* the call `return dialogue` (line 261) through finally
Exec_ValidateNew(t, read_fails) ==
  /\ handlers[t].pc = "validate_new"
  /\ memory_lock = NoWriter
  /\ read_fails => faults_left > 0
  /\ LET h == handlers[t] IN
       IF ValidateDialogueState(h.dialogue, read_fails)
       THEN /\ handlers' = [handlers EXCEPT ![t] = [h EXCEPT !.pc = "loop"]]
            /\ UNCHANGED handler_active_dialogues
       ELSE /\ handlers' = [handlers EXCEPT ![t] = [h EXCEPT !.pc = "returned"]]
            /\ handler_active_dialogues' = Discarded(handler_active_dialogues, h)
  /\ faults_left' = IF read_fails THEN faults_left - 1 ELSE faults_left
  /\ UNCHANGED <<storeVars, agentVars, memory_lock>>
  /\ UNCHANGED dlgFrame

\* the while condition of lines 274-278
LoopCondition(h) ==
  /\ h.message_count < MaxMessages
  /\ h.total_tokens < MaxTokens
  /\ h.goodbye_count < GoodbyeThreshold

\* lines 274-286: loop test, then validation of the dialogue; a failed
\* validation breaks out of the loop
Exec_LoopTest(t, read_fails) ==
  /\ handlers[t].pc = "loop"
  /\ LET h == handlers[t] IN
       IF LoopCondition(h)
       THEN /\ memory_lock = NoWriter
            /\ read_fails => faults_left > 0
            /\ handlers' = [handlers EXCEPT ![t].pc =
                 IF ValidateDialogueState(h.dialogue, read_fails)
                 THEN "generate" ELSE "end"]
            /\ faults_left' = IF read_fails THEN faults_left - 1 ELSE faults_left
       ELSE /\ ~read_fails
            /\ handlers' = [handlers EXCEPT ![t].pc = "end"]
            /\ UNCHANGED faults_left
  /\ UNCHANGED <<storeVars, agentVars, memory_lock, handler_active_dialogues>>
  /\ UNCHANGED dlgFrame

\* _generate_npc_message as the loop sees it: the NPC agent's text ("chat",
\* or "farewell" when it holds a goodbye phrase), a "timeout" of wait_for,
\* or "invalid" output (None, not a string, an exception, or an empty
\* string caught at line 307).  force_goodbye is only a hint in the prompt.
GenOutcomes == {"chat", "farewell", "timeout", "invalid"}

GenFailed(outcome) == outcome \in {"timeout", "invalid"}

\* the text the loop holds after lines 299-309
GeneratedText(did, outcome) ==
  IF ObjEnded(did) \/ GenFailed(outcome) THEN "fallback" ELSE outcome

\* goodbye_count after lines 315-318
GoodbyeAfter(count, text) == IF ContainsGoodbye(text) THEN count + 1 ELSE count

\* the dialogue has messages in the store
HasContent(did) == \E m \in DOMAIN messages : messages[m].dialogue_id = did

\* the text that OpinionAgent.generate_opinion gives for a message
NewOpinion == "opinion"

\* NPC_Agent.generate_message, lines 296-339: when the dialogue has a last
\* message and the call comes back in time, the speaker's opinion on its
\* sender is written; the handler passes social_stance_agent=None
OpinionUpdated(h, outcome) ==
  /\ ~ObjEnded(h.dialogue)
  /\ outcome # "timeout"
  /\ HasContent(h.dialogue)

\* _generate_npc_message, lines 520-533 and 546-550: wait_for gives up on
\* the future of asyncio.to_thread, whose worker thread cannot be cancelled
\* and runs generate_message to its end; with a last message in the
\* dialogue that call still has update_npc_opinion (npc_agent.py:339) ahead
AbandonedCall(h, outcome) ==
  IF outcome = "timeout" /\ ~ObjEnded(h.dialogue) /\ HasContent(h.dialogue)
  THEN {[npc |-> Speaker(h), target |-> Listener(h), turn |-> h.message_count]}
  ELSE {}

\* lines 292-318: generate the message, count its tokens, detect a goodbye
Exec_Generate(t, outcome) ==
  /\ handlers[t].pc = "generate"
  /\ LET h    == handlers[t]
         text == GeneratedText(h.dialogue, outcome)
     IN handlers' = [handlers EXCEPT ![t] =
          [h EXCEPT !.pc = "append", !.attempt = 0, !.message_text = text,
                    !.total_tokens = @ + count_tokens(text),
                    !.goodbye_count = GoodbyeAfter(@, text),
                    !.gen_failed = @ \/ GenFailed(outcome),
                    !.abandoned = @ \cup AbandonedCall(h, outcome)]]
  /\ social' = IF OpinionUpdated(handlers[t], outcome)
               THEN WithOpinion(social, current_session, Speaker(handlers[t]),
                                Listener(handlers[t]), NewOpinion)
               ELSE social
  /\ UNCHANGED <<storeVars, agentVars, memory_lock, handler_active_dialogues, faults_left>>
  /\ UNCHANGED socFrame

\* the worker thread of an abandoned generate_message call reaches
\* update_npc_opinion and writes the speaker's opinion
Abandoned_Write(t) ==
  /\ current_session # None
  /\ \E a \in handlers[t].abandoned :
       /\ social' = WithOpinion(social, current_session, a.npc, a.target, NewOpinion)
       /\ handlers' = [handlers EXCEPT ![t].abandoned = @ \ {a}]
  /\ UNCHANGED <<storeVars, agentVars, memory_lock, handler_active_dialogues, faults_left>>
  /\ UNCHANGED socFrame

\* lines 360-384: broadcast and context update (non-critical), then
\* message_count += 1 and the speakers swap
NextTurn(h) ==
  [h EXCEPT !.pc = "loop", !.attempt = 0, !.message_count = @ + 1,
            !.speaker_is_initiator = ~@]

\* an `async with` block that would keep the memory lock on leaving
LockKept(t, r) == t

\* holder of the memory lock after one attempt inside `async with (await
\* self._get_memory_lock())`: retry_on_failure repeats a failed attempt
\* inside the block, leaving the block releases the lock
LockAfter(t, r) == IF ~r.ok /\ CanRetry(handlers[t]) THEN t ELSE NoWriter

\* one attempt of _safe_add_message under the memory lock; the storage
\* part of the step, common to lines 320-328 and lines 346-355
AppendAttempt(t, fault, r) ==
  /\ LockFor(t)
  /\ FaultAllowed(fault)
  /\ AllocId("messages") < MaxMsgRows
  /\ id_counters' = r.ids
  /\ messages' = r.msgs
  /\ dialogues' = r.dlgs
  /\ active_dialogues' = r.cache
  /\ sessions' = r.sess
  /\ UNCHANGED days
  /\ memory_lock' = LockAfter(t, r)
  /\ faults_left' = FaultsAfter(fault)
  /\ UNCHANGED <<dbWriter, current_session, end_outcome, handler_active_dialogues>>
  /\ UNCHANGED dlgFrame

\* lines 320-328 and 340-344: append the turn's message; after the last
\* failed attempt the except branch takes the fallback text and sets
\* goodbye_count = goodbye_threshold
Exec_Append(t, fault) ==
  /\ handlers[t].pc = "append"
  /\ LET h == handlers[t]
         r == AddMessageResult(h.dialogue, Speaker(h), Listener(h), h.message_text, fault)
     IN /\ AppendAttempt(t, fault, r)
        /\ handlers' = [handlers EXCEPT ![t] =
             IF r.ok THEN NextTurn(h)
             ELSE IF CanRetry(h) THEN [h EXCEPT !.attempt = @ + 1]
             ELSE [h EXCEPT !.pc = "fallback_append", !.attempt = 0,
                            !.message_text = "fallback",
                            !.goodbye_count = GoodbyeThreshold,
                            !.append_failed = TRUE]]

\* lines 346-358: append the fallback message; after the last failed
\* attempt `break` leaves the loop
Exec_FallbackAppend(t, fault) ==
  /\ handlers[t].pc = "fallback_append"
  /\ LET h == handlers[t]
         r == AddMessageResult(h.dialogue, Speaker(h), Listener(h), h.message_text, fault)
     IN /\ AppendAttempt(t, fault, r)
        /\ handlers' = [handlers EXCEPT ![t] =
             IF r.ok THEN NextTurn(h)
             ELSE IF CanRetry(h) THEN [h EXCEPT !.attempt = @ + 1]
             ELSE [h EXCEPT !.pc = "end", !.attempt = 0, !.append_failed = TRUE]]

\* one attempt of _safe_end_dialogue under the memory lock
EndAttempt(t, fault, r) ==
  /\ LockFor(t)
  /\ FaultAllowed(fault)
  /\ dialogues' = r.dlgs
  /\ active_dialogues' = r.cache
  /\ end_outcome' = EndOutcome(handlers[t].dialogue, r)
  /\ memory_lock' = LockAfter(t, r)
  /\ faults_left' = FaultsAfter(fault)
  /\ UNCHANGED <<id_counters, sessions, days, messages, dbWriter, current_session>>
  /\ UNCHANGED dlgFrame

\* lines 389-391: end the dialogue; the error of the last failed attempt
\* goes to the except branch of line 410
Exec_End(t, fault) ==
  /\ handlers[t].pc = "end"
  /\ LET h == handlers[t]
         r == EndDialogueResult(h.dialogue, fault)
     IN /\ EndAttempt(t, fault, r)
        /\ handlers' = [handlers EXCEPT ![t] =
             IF r.ok THEN [h EXCEPT !.pc = "post_updates", !.attempt = 0]
             ELSE IF CanRetry(h) THEN [h EXCEPT !.attempt = @ + 1]
             ELSE [h EXCEPT !.pc = "cleanup", !.attempt = 0]]
        /\ UNCHANGED handler_active_dialogues

\* lines 393-408 and 424-428: post-dialogue updates (their errors are only
\* logged), finally discards the key, the call returns the dialogue
\* _update_agents_after_dialogue, lines 648-763: nothing without dialogue
\* content; both set_social_stance calls are gathered inside one try, a
\* raising call_llm leaves both stances None; a stance that is not None is
\* written under the memory lock
StanceAfterDialogue(h, llm) ==
  IF ~HasContent(h.dialogue) \/ llm = "raised" THEN social
  ELSE WithStance(WithStance(social, current_session, h.initiator, h.responder),
                  current_session, h.responder, h.initiator)

Exec_PostUpdates(t, llm) ==
  /\ handlers[t].pc = "post_updates"
  /\ handlers' = [handlers EXCEPT ![t].pc = "reputation"]
  /\ social' = StanceAfterDialogue(handlers[t], llm)
  /\ UNCHANGED <<storeVars, agentVars, memory_lock, faults_left, handler_active_dialogues>>
  /\ UNCHANGED socFrame

\* generate_reputation (reputation_agent.py:90-164) gives a value when
\* call_llm returns a text, its fallback text included; a raising call_llm
\* leaves _update_one through its except branch
ReputationDone(names, outcome) ==
  {n \in names : outcome[n] # "raised"}

\* both updates cancelled by one failure
ReputationsGathered(sess, sid, names, outcome) ==
  IF sid \in DOMAIN sess /\ ReputationDone(names, outcome) = names
  THEN [sess EXCEPT ![sid].reputations = @ \cup names]
  ELSE sess

\* _update_one, lines 441-469, once per participant under asyncio.gather:
\* current_session.reputations[name] = rep, then update_session; any error
\* of one participant stays inside its own try
WithReputations(sess, sid, names, outcome) ==
  IF sid \in DOMAIN sess
  THEN [sess EXCEPT ![sid].reputations = @ \cup ReputationDone(names, outcome)]
  ELSE sess

\* lines 399-408 and 424-428: _maybe_update_reputation (lines 430-471, a
\* return at once unless reputation is enabled), then finally discards the
\* key and the call returns the dialogue
Exec_Reputation(t, enabled, outcome) ==
  /\ handlers[t].pc = "reputation"
  /\ LET h     == handlers[t]
         names == {h.initiator, h.responder}
     IN /\ handlers' = [handlers EXCEPT ![t] =
             [h EXCEPT !.pc = "returned",
                       !.rep_done = IF enabled THEN ReputationDone(names, outcome)
                                    ELSE {}]]
        /\ sessions' = IF enabled
                       THEN WithReputations(sessions, current_session, names, outcome)
                       ELSE sessions
  /\ handler_active_dialogues' = Discarded(handler_active_dialogues, handlers[t])
  /\ UNCHANGED <<id_counters, days, dialogues, messages, agentVars, memory_lock, faults_left>>
  /\ UNCHANGED dlgFrame

\* lines 410-426: cleanup attempt of the except branch, then
\* DialogueHandlerError is raised whatever the cleanup did, through finally
Exec_Cleanup(t, fault) ==
  /\ handlers[t].pc = "cleanup"
  /\ LET h == handlers[t]
         r == EndDialogueResult(h.dialogue, fault)
         over == r.ok \/ ~CanRetry(h)
     IN /\ EndAttempt(t, fault, r)
        /\ handlers' = [handlers EXCEPT ![t] =
             IF over THEN [h EXCEPT !.pc = "raised", !.attempt = 0]
             ELSE [h EXCEPT !.attempt = @ + 1]]
        /\ handler_active_dialogues' =
             IF over THEN Discarded(handler_active_dialogues, h)
             ELSE handler_active_dialogues

\* force_end_all_dialogues, lines 925-936: only the set is cleared
ForceEndAllDialogues ==
  /\ handler_active_dialogues # {}
  /\ handler_active_dialogues' = {}
  /\ UNCHANGED <<storeVars, agentVars, handlers, memory_lock, faults_left>>
  /\ UNCHANGED dlgFrame

\* the game loop creates the session before any dialogue runs
DlgCreateSession ==
  /\ current_session = None
  /\ MA_CreateSession
  /\ UNCHANGED <<dbWriter, allocVars, cmpVars, dlgVars, loopVars, dayVars, flowVars>>

StartFaults == {"none", "create_dialogue", "update_session"}

AppendFaults == {"none", "create_message", "update_dialogue", "npc_memory"}

EndFaults == {"none", "update_dialogue"}

InitDialogue == StoreInit /\ AllocInit /\ AgentInit /\ CmpInit /\ DlgInit /\ LoopInit /\ DayInit /\ SocInit /\ FlowInit

\* GameLoopManager.run_conversation awaits each execution before the next
\* (game_loop_manager.py:333): one task executes, storage calls may fail
GameLoopTask == "h1"

NextDialogue ==
  \/ DlgCreateSession
  \/ \E i, r \in NPCs, p \in Phases : Exec_Request(GameLoopTask, i, r, p)
  \/ \E f \in StartFaults : Exec_Start(GameLoopTask, f)
  \/ \E f \in BOOLEAN : Exec_ValidateNew(GameLoopTask, f)
  \/ \E f \in BOOLEAN : Exec_LoopTest(GameLoopTask, f)
  \/ \E o \in GenOutcomes : Exec_Generate(GameLoopTask, o)
  \/ Abandoned_Write(GameLoopTask)
  \/ \E f \in AppendFaults : Exec_Append(GameLoopTask, f)
  \/ \E f \in AppendFaults : Exec_FallbackAppend(GameLoopTask, f)
  \/ \E f \in EndFaults : Exec_End(GameLoopTask, f)
  \/ \E o \in CallLLMOutcomes : Exec_PostUpdates(GameLoopTask, o)
  \/ \E e \in BOOLEAN, o \in [NPCs -> CallLLMOutcomes] :
        Exec_Reputation(GameLoopTask, e, o)
  \/ \E f \in EndFaults : Exec_Cleanup(GameLoopTask, f)
  \/ ForceEndAllDialogues

SpecDialogue == InitDialogue /\ [][NextDialogue]_vars

\* Several tasks of one event loop call the handler at once; the storage
\* answers every call (no error is left to raise)
InitConcurrent ==
  /\ StoreInit /\ AllocInit /\ AgentInit /\ CmpInit /\ LoopInit /\ DayInit
  /\ SocInit /\ FlowInit
  /\ handlers = [t \in Tasks |-> NewCall]
  /\ handler_active_dialogues = {}
  /\ memory_lock = NoWriter
  /\ faults_left = 0

NextConcurrent ==
  \/ DlgCreateSession
  \/ \E t \in Tasks, i, r \in NPCs, p \in Phases : Exec_Request(t, i, r, p)
  \/ \E t \in Tasks : Exec_Start(t, "none")
  \/ \E t \in Tasks : Exec_ValidateNew(t, FALSE)
  \/ \E t \in Tasks : Exec_LoopTest(t, FALSE)
  \/ \E t \in Tasks, o \in GenOutcomes : Exec_Generate(t, o)
  \/ \E t \in Tasks : Exec_Append(t, "none")
  \/ \E t \in Tasks : Exec_End(t, "none")
  \/ \E t \in Tasks : Exec_PostUpdates(t, "ok")
  \/ \E t \in Tasks : Exec_Reputation(t, FALSE, [n \in NPCs |-> "ok"])
  \/ ForceEndAllDialogues

SpecConcurrent == InitConcurrent /\ [][NextConcurrent]_vars

\* ------------------------------------------------------------------------
\* The game loop: app._game_loop and ExperimentalRunner._run_game_session
\* driving GameLoopManager.run_day_cycle / run_phase / run_conversation
\* ------------------------------------------------------------------------
Drivers == {"app", "runner"}

LoopIdle == gl.pc \in {"idle", "done"}

\* stop_event.is_set() / GameLoopManager._should_stop()
ShouldStop == stop_event

\* MemoryAgent.advance_time(new_day=d): the session object takes the day and
\* update_session persists it
AdvanceTime(d) ==
  /\ mem_current_day' = d
  /\ db_current_day' = d

\* what is started while the signal is set is remembered
StartedNow(what) ==
  started_after_stop' =
    IF stop_event THEN started_after_stop \cup {what} ELSE started_after_stop

\* app.game_start / ExperimentalRunner: a new Event and a new loop for the
\* same session id, asked to run nd days
GameStart(driver, nd) ==
  /\ LoopIdle
  /\ gl.run < MaxRuns
  /\ gl' = [gl EXCEPT !.pc = "ensure_session", !.driver = driver,
                      !.run = @ + 1, !.num_days = nd, !.days_run = 0]
  /\ stop_event' = FALSE
  /\ day_log' = Append(day_log, 0)
  /\ started_after_stop' = {}
  /\ UNCHANGED <<mem_current_day, db_current_day, exec_log>>
  /\ UNCHANGED loopFrame

\* the session of the loop: app._game_loop calls create_session(session_id)
\* when the agent's current session is not this one (INSERT OR REPLACE,
\* current_day = 1); the runner first tries load_session.  Then
\* game_loop.current_day = session.current_day
EnsureSession ==
  /\ gl.pc = "ensure_session"
  /\ LET day == IF mem_current_day # None THEN mem_current_day
                ELSE IF gl.driver = "runner" /\ db_current_day # None
                     THEN db_current_day
                ELSE 1
     IN /\ mem_current_day' = day
        /\ db_current_day' = IF mem_current_day = None THEN day ELSE db_current_day
        /\ gl' = [gl EXCEPT !.pc = "loop_test", !.current_day = day]
  /\ UNCHANGED <<stop_event, exec_log, day_log, started_after_stop>>
  /\ UNCHANGED loopFrame

\* `while not stop_event.is_set() and days_run < num_days` (app.py) and
\* `for day in range(duration_days): if stop_event.is_set(): break` with
\* current_day_label = game_loop.current_day (runner.py)
LoopTest ==
  /\ gl.pc = "loop_test"
  /\ gl' = IF ~ShouldStop /\ gl.days_run < gl.num_days
           THEN [gl EXCEPT !.pc = "day_top", !.label = gl.current_day]
           ELSE [gl EXCEPT !.pc = "done"]
  /\ UNCHANGED <<stop_event, mem_current_day, db_current_day, exec_log,
                 day_log, started_after_stop>>
  /\ UNCHANGED loopFrame

\* run_day_cycle, lines 224-258: stop test, day_start, lifecycle, schedule
DayTop(schedule) ==
  /\ gl.pc = "day_top"
  /\ gl' = IF ShouldStop THEN [gl EXCEPT !.pc = "after_day"]
           ELSE [gl EXCEPT !.pc = "phase_test", !.phase = 1, !.schedule = schedule]
  /\ UNCHANGED <<stop_event, mem_current_day, db_current_day, exec_log,
                 day_log, started_after_stop>>
  /\ UNCHANGED loopFrame

\* run_day_cycle, lines 261-266: the loop over the phases
PhaseTest ==
  /\ gl.pc = "phase_test"
  /\ gl' = IF gl.phase > NumPhases \/ ShouldStop
           THEN [gl EXCEPT !.pc = "day_end"]
           ELSE [gl EXCEPT !.pc = "phase_top"]
  /\ UNCHANGED <<stop_event, mem_current_day, db_current_day, exec_log,
                 day_log, started_after_stop>>
  /\ UNCHANGED loopFrame

\* run_phase, lines 278-281: stop test at the top of the phase
PhaseTop ==
  /\ gl.pc = "phase_top"
  /\ gl' = IF ShouldStop
           THEN [gl EXCEPT !.pc = "phase_test", !.phase = @ + 1]
           ELSE [gl EXCEPT !.pc = "phase_persist"]
  /\ UNCHANGED <<stop_event, mem_current_day, db_current_day, exec_log,
                 day_log, started_after_stop>>
  /\ UNCHANGED loopFrame

\* run_phase, lines 281-294: phase_start, create_day, advance_time (of the
\* session row only the current_day column is followed here)
PhasePersist ==
  /\ gl.pc = "phase_persist"
  /\ AdvanceTime(gl.current_day)
  /\ StartedNow("phase")
  /\ gl' = [gl EXCEPT !.pc = "conv_test", !.pair = 1]
  /\ UNCHANGED <<stop_event, exec_log, day_log>>
  /\ UNCHANGED loopFrame

\* the executions of the loop's current run, day and phase that are over
ExecutedInPhase ==
  {i \in DOMAIN exec_log :
     /\ exec_log[i].run = gl.run /\ exec_log[i].day = gl.current_day
     /\ exec_log[i].phase = gl.phase /\ exec_log[i].status = "finished"}

\* history kept in gl.done_phases: the (day, phase) pairs of the session
\* whose scheduled dialogues, at least one, have all been executed
DonePhases ==
  IF gl.schedule[gl.phase] > 0 /\ Cardinality(ExecutedInPhase) = gl.schedule[gl.phase]
  THEN gl.done_phases \cup {<<gl.current_day, gl.phase>>}
  ELSE gl.done_phases

\* run_phase, lines 301-306: the loop over the scheduled pairs
ConvTest ==
  /\ gl.pc = "conv_test"
  /\ gl' = IF gl.pair > gl.schedule[gl.phase] \/ ShouldStop
           THEN [gl EXCEPT !.pc = "phase_test", !.phase = @ + 1,
                           !.done_phases = DonePhases]
           ELSE [gl EXCEPT !.pc = "conv_top"]
  /\ UNCHANGED <<stop_event, mem_current_day, db_current_day, exec_log,
                 day_log, started_after_stop>>
  /\ UNCHANGED loopFrame

\* run_conversation, lines 311-324: stop test, session and roster checks
ConvTop ==
  /\ gl.pc = "conv_top"
  /\ gl' = IF ShouldStop
           THEN [gl EXCEPT !.pc = "conv_test", !.pair = @ + 1]
           ELSE [gl EXCEPT !.pc = "conv_start"]
  /\ UNCHANGED <<stop_event, mem_current_day, db_current_day, exec_log,
                 day_log, started_after_stop>>
  /\ UNCHANGED loopFrame

\* an entry of exec_log: where in the run the dialogue stands in the
\* schedule, how far its execution is, whether its row has ended_at set, and
\* whether the stop signal was set while it was in progress
NewExec ==
  [run |-> gl.run, day |-> gl.current_day, phase |-> gl.phase, pair |-> gl.pair,
   status |-> "running", ended_at |-> FALSE, cancelled |-> FALSE]

\* run_conversation, line 333: execute_scheduled_dialogue is entered and
\* creates the Dialogue row
ConvStart ==
  /\ gl.pc = "conv_start"
  /\ exec_log' = Append(exec_log, NewExec)
  /\ StartedNow("dialogue")
  /\ gl' = [gl EXCEPT !.pc = "conv_running"]
  /\ UNCHANGED <<stop_event, mem_current_day, db_current_day, day_log>>
  /\ UNCHANGED loopFrame

\* the ways execute_scheduled_dialogue leaves its turn loop: "ended" through
\* _safe_end_dialogue, or "unended" when it returns at line 261 of
\* dialogue_handler.py or raises with the row left without ended_at
ExecOutcomes == {"ended", "unended"}

\* a handler that would schedule the post-dialogue updates as a detached
\* task and return to the pair loop at once
ConvEndDetached(outcome) ==
  /\ gl.pc = "conv_running"
  /\ exec_log' = [exec_log EXCEPT ![Len(exec_log)] =
        IF outcome = "ended"
        THEN [@ EXCEPT !.status = "post", !.ended_at = TRUE]
        ELSE [@ EXCEPT !.status = "finished"]]
  /\ gl' = [gl EXCEPT !.pc = "conv_test", !.pair = @ + 1]
  /\ UNCHANGED <<stop_event, mem_current_day, db_current_day, day_log,
                 started_after_stop>>
  /\ UNCHANGED loopFrame

\* the turn loop of the execution is over
ConvEnd(outcome) ==
  /\ gl.pc = "conv_running"
  /\ exec_log' = [exec_log EXCEPT ![Len(exec_log)] =
        IF outcome = "ended"
        THEN [@ EXCEPT !.status = "post", !.ended_at = TRUE]
        ELSE [@ EXCEPT !.status = "finished"]]
  /\ gl' = IF outcome = "ended" THEN [gl EXCEPT !.pc = "conv_post"]
           ELSE [gl EXCEPT !.pc = "conv_test", !.pair = @ + 1]
  /\ UNCHANGED <<stop_event, mem_current_day, db_current_day, day_log,
                 started_after_stop>>
  /\ UNCHANGED loopFrame

\* the awaited post-dialogue updates, then execute_scheduled_dialogue and
\* run_conversation return
ConvPost ==
  /\ gl.pc = "conv_post"
  /\ exec_log' = [exec_log EXCEPT ![Len(exec_log)].status = "finished"]
  /\ gl' = [gl EXCEPT !.pc = "conv_test", !.pair = @ + 1]
  /\ UNCHANGED <<stop_event, mem_current_day, db_current_day, day_log,
                 started_after_stop>>
  /\ UNCHANGED loopFrame

\* run_day_cycle returns: its schedule and loop indices are gone
DayLocalsGone ==
  [gl EXCEPT !.phase = 1, !.pair = 1, !.schedule = [ph \in 1..NumPhases |-> 0]]

\* run_day_cycle, lines 268-271: end_of_day_processing, current_day += 1;
\* exec_log is the history of one day
DayEnd ==
  /\ gl.pc = "day_end"
  /\ IF ShouldStop
     THEN /\ gl' = [DayLocalsGone EXCEPT !.pc = "after_day"]
          /\ UNCHANGED day_log
     ELSE /\ gl' = [DayLocalsGone EXCEPT !.pc = "after_day", !.current_day = @ + 1]
          /\ day_log' = [day_log EXCEPT ![Len(day_log)] = @ + 1]
  /\ exec_log' = <<>>
  /\ UNCHANGED <<stop_event, mem_current_day, db_current_day,
                 started_after_stop>>
  /\ UNCHANGED loopFrame

\* after asyncio.run(run_day_cycle()): app.py advances the session to
\* game_loop.current_day unless the signal is set; runner.py advances it to
\* current_day_label, the day the cycle started with
AfterDay ==
  /\ gl.pc = "after_day"
  /\ IF gl.driver = "runner"
     THEN /\ AdvanceTime(gl.label)
          /\ gl' = [gl EXCEPT !.pc = "loop_test", !.days_run = @ + 1]
     ELSE IF ShouldStop
     THEN /\ gl' = [gl EXCEPT !.pc = "loop_test"]
          /\ UNCHANGED <<mem_current_day, db_current_day>>
     ELSE /\ AdvanceTime(gl.current_day)
          /\ gl' = [gl EXCEPT !.pc = "loop_test", !.days_run = @ + 1]
  /\ UNCHANGED <<stop_event, exec_log, day_log, started_after_stop>>
  /\ UNCHANGED loopFrame

\* app.game_stop: the Event of the running loop is set by a request thread
GameStop ==
  /\ ~LoopIdle
  /\ gl.driver = "app"
  /\ ~stop_event
  /\ stop_event' = TRUE
  /\ exec_log' = IF gl.pc = "conv_running"
                 THEN [exec_log EXCEPT ![Len(exec_log)].cancelled = TRUE]
                 ELSE exec_log
  /\ UNCHANGED <<gl, mem_current_day, db_current_day, day_log,
                 started_after_stop>>
  /\ UNCHANGED loopFrame

\* between two runs the server process is started anew (or another session
\* becomes the agent's current one): the agent holds no session object
ProcessRestart ==
  /\ gl.pc = "done"
  /\ mem_current_day # None
  /\ mem_current_day' = None
  /\ UNCHANGED <<gl, stop_event, db_current_day, exec_log, day_log,
                 started_after_stop>>
  /\ UNCHANGED loopFrame

Schedules == [1..NumPhases -> 0..MaxPairs]

InitGameLoop == StoreInit /\ AllocInit /\ AgentInit /\ CmpInit /\ DlgInit /\ LoopInit /\ DayInit /\ SocInit /\ FlowInit

\* one run of app._game_loop with its dialogues, and game_stop
NextGameLoop ==
  \/ gl.run = 0 /\ \E nd \in 1..MaxLoopDays : GameStart("app", nd)
  \/ EnsureSession
  \/ LoopTest
  \/ \E sch \in Schedules : DayTop(sch)
  \/ PhaseTest
  \/ PhaseTop
  \/ PhasePersist
  \/ ConvTest
  \/ ConvTop
  \/ ConvStart
  \/ \E o \in ExecOutcomes : ConvEnd(o)
  \/ ConvPost
  \/ DayEnd
  \/ AfterDay
  \/ GameStop

SpecGameLoop == InitGameLoop /\ [][NextGameLoop]_vars

\* a day on which the schedule agent pairs nobody
EmptySchedule == [ph \in 1..NumPhases |-> 0]

\* successive runs over one session id, by either driver, on days without
\* dialogues
NextResume ==
  \/ \E d \in Drivers, nd \in 1..MaxLoopDays : GameStart(d, nd)
  \/ EnsureSession
  \/ LoopTest
  \/ DayTop(EmptySchedule)
  \/ PhaseTest
  \/ PhaseTop
  \/ PhasePersist
  \/ ConvTest
  \/ DayEnd
  \/ AfterDay
  \/ GameStop
  \/ ProcessRestart

SpecResume == InitGameLoop /\ [][NextResume]_vars

\* a day on which the schedule agent gives every phase one pair
FullSchedule == [ph \in 1..NumPhases |-> 1]

\* runs of app._game_loop over one session id in one server process, each
\* of which game_stop may cancel, on days with one dialogue in every phase
NextCancel ==
  \/ \E nd \in 1..MaxLoopDays : GameStart("app", nd)
  \/ EnsureSession
  \/ LoopTest
  \/ DayTop(FullSchedule)
  \/ PhaseTest
  \/ PhaseTop
  \/ PhasePersist
  \/ ConvTest
  \/ ConvTop
  \/ ConvStart
  \/ \E o \in ExecOutcomes : ConvEnd(o)
  \/ ConvPost
  \/ DayEnd
  \/ AfterDay
  \/ GameStop

SpecCancel == InitGameLoop /\ [][NextCancel]_vars

\* ------------------------------------------------------------------------
\* LifeCycleAgent and ScheduleAgent (agents/flow_agents), as run_day_cycle
\* calls them before the phases of a day.  The characters of the roster are
\* numbered in the order of the session's character_list; Unknown is a name
\* of a response that no character carries.
\* ------------------------------------------------------------------------
Unknown == 0

RosterOf(n) == [i \in 1..n |-> i]

\* the lists output_parser_list.parse can give for an LLM text
CsvLists(names) == UNION {[1..k -> names] : k \in 0..MaxCsv}

\* the names an LLM text may hold: the roster's, one more, an unknown one
ResponseNames(roster) == 0..(Len(roster) + 1)

\* what the agents parse: the LLM's own text, or the fallback text of
\* call_llm ("I need to go now. Goodbye!"), one item that names nobody
ResponseList(outcome, csv) == IF outcome = "ok" THEN csv ELSE <<Unknown>>

RECURSIVE Dedup(_)
\* keys of a dict filled in the order of the list
Dedup(s) ==
  IF s = <<>> THEN <<>>
  ELSE LET r == Dedup(SubSeq(s, 1, Len(s) - 1))
       IN IF s[Len(s)] \in SeqToSet(r) THEN r ELSE Append(r, s[Len(s)])

\* decide_life_cycles, lines 107-123: the names of the response that are
\* in the roster, the whole roster when there is none
DecideLifeCycles(roster, response) ==
  LET response_list == SelectSeq(response, LAMBDA x : x \in SeqToSet(roster))
  IN IF response_list = <<>> THEN roster ELSE response_list

\* update_life_cycle_map, lines 127-158
UpdateLifeCycleMap(roster, active_character_list) ==
  LET named  == Dedup(SelectSeq(active_character_list,
                                LAMBDA x : x \in SeqToSet(roster)))
      active == IF named = <<>>
                THEN SubSeq(roster, 1, IF Len(roster) < 2 THEN Len(roster) ELSE 2)
                ELSE named
  IN [active  |-> active,
      passive |-> SelectSeq(roster, LAMBDA x : x \notin SeqToSet(active))]

\* run_day_cycle, line 236: update_life_cycle_map; call_llm is called
\* outside any try, its exception leaves run_day_cycle
FlowLifecycle(outcome, csv) ==
  /\ flow.pc = "lifecycle"
  /\ flow' =
       IF outcome = "raised" THEN [flow EXCEPT !.pc = "aborted"]
       ELSE LET m == UpdateLifeCycleMap(flow.roster,
                       DecideLifeCycles(flow.roster, ResponseList(outcome, csv)))
            IN [flow EXCEPT !.pc = "introduce", !.active = m.active,
                            !.passive = m.passive]
  /\ UNCHANGED <<storeVars, allocVars, agentVars, cmpVars, dlgVars, loopVars,
                 dayVars, socVars, llm_call>>

\* the answers to the Introduction prompt: no JSON at all, the empty
\* object, the six named fields, six fields of which name is one but
\* location_work is not, six fields without name, the six named fields and
\* one more
IntroKinds == {"no_json", "empty_object", "six_named", "six_other",
               "six_no_name", "seven_fields"}

\* len(output_parser_json.parse(response)); a text without JSON parses to {}
FieldCount(kind) ==
  IF kind \in {"six_named", "six_other", "six_no_name"} THEN 6
  ELSE IF kind = "seven_fields" THEN 7 ELSE 0

\* introduce_new_characters, lines 163-258: a character is returned
IntroduceNewCharacters(roster, outcome, kind) ==
  /\ Len(roster) < CharacterLimit
  /\ FieldCount(IF outcome = "ok" THEN kind ELSE "no_json") = 6

\* MemoryAgent.add_character, lines 572-630: a missing name raises (caught
\* at game_loop_manager.py:246), an existing name is skipped
AddCharacter(roster, kind, name) ==
  IF kind = "six_no_name" \/ name \in SeqToSet(roster) THEN roster
  ELSE Append(roster, name)

\* run_day_cycle, lines 237-247
FlowIntroduce(outcome, kind, name) ==
  /\ flow.pc = "introduce"
  /\ flow' =
       IF Len(flow.roster) < CharacterLimit /\ outcome = "raised"
       THEN [flow EXCEPT !.pc = "aborted"]
       ELSE [flow EXCEPT !.pc = "schedule", !.phase = 1, !.idx = 1,
                         !.pairs = {}, !.refused = {},
                         !.roster = IF IntroduceNewCharacters(@, outcome, kind)
                                    THEN AddCharacter(@, kind, name) ELSE @]
  /\ UNCHANGED <<storeVars, allocVars, agentVars, cmpVars, dlgVars, loopVars,
                 dayVars, socVars, llm_call>>

\* schedule_character, lines 178-179
Available(npc_name, active) == SelectSeq(active, LAMBDA x : x # npc_name)

\* schedule_character, lines 122-190: the response (the first available
\* character when call_llm raised), parsed and filtered
ScheduleCharacter(npc_name, active, outcome, csv) ==
  LET response == IF outcome = "raised"
                  THEN SubSeq(Available(npc_name, active), 1,
                              IF Available(npc_name, active) = <<>> THEN 0 ELSE 1)
                  ELSE ResponseList(outcome, csv)
  IN SelectSeq(response, LAMBDA x : x # npc_name /\ x \in SeqToSet(active))

\* a pair is added whatever the set holds
AddPairUnchecked(pairs, name, recipient) == pairs \cup {<<name, recipient>>}

\* set_schedule, lines 108-109
AddPair(pairs, name, recipient) ==
  IF <<recipient, name>> \notin pairs /\ <<name, recipient>> \notin pairs
  THEN pairs \cup {<<name, recipient>>}
  ELSE pairs

RECURSIVE AddPairs(_, _, _)
\* set_schedule, lines 107-109: the loop over the recipients
AddPairs(pairs, name, schedule) ==
  IF schedule = <<>> THEN pairs
  ELSE AddPairs(AddPair(pairs, name, Head(schedule)), name, Tail(schedule))

\* history: what the filters of a schedule query turned down
Refused(pairs, name, active, response) ==
  {"self" : x \in {y \in SeqToSet(response) : y = name}}
    \cup {"inactive" : x \in {y \in SeqToSet(response) : y \notin SeqToSet(active)}}
    \cup {"reverse" : x \in {y \in SeqToSet(response) : <<y, name>> \in pairs}}

\* set_schedule, lines 98-109: one character of the active list in one
\* phase; the set of a phase is only added to while its loop runs, the
\* model keeps the set of the phase under construction
FlowSchedule(outcome, csv) ==
  /\ flow.pc = "schedule"
  /\ flow.idx <= Len(flow.active)
  /\ LET name     == flow.active[flow.idx]
         schedule == SelectSeq(ScheduleCharacter(name, flow.active, outcome, csv),
                               LAMBDA r : r \in SeqToSet(flow.roster) /\ r # name)
     IN flow' = [flow EXCEPT !.idx = @ + 1,
                             !.pairs = AddPairs(@, name, schedule),
                             !.refused = @ \cup Refused(flow.pairs, name, flow.active,
                                                        ResponseList(outcome, csv))]
  /\ UNCHANGED <<storeVars, allocVars, agentVars, cmpVars, dlgVars, loopVars,
                 dayVars, socVars, llm_call>>

\* set_schedule, line 98 and lines 111-120: the next phase, or the schedule
\* is stored and returned
FlowNextPhase ==
  /\ flow.pc = "schedule"
  /\ flow.idx > Len(flow.active)
  /\ flow' = IF flow.phase < NumPhases
             THEN [flow EXCEPT !.phase = @ + 1, !.idx = 1, !.pairs = {},
                               !.refused = {}]
             ELSE [flow EXCEPT !.pc = "scheduled"]
  /\ UNCHANGED <<storeVars, allocVars, agentVars, cmpVars, dlgVars, loopVars,
                 dayVars, socVars, llm_call>>

\* a day begins with a roster of up to MaxRoster characters
InitFlow ==
  /\ StoreInit /\ AllocInit /\ AgentInit /\ CmpInit /\ DlgInit /\ LoopInit
  /\ DayInit /\ SocInit
  /\ \E n \in 0..MaxRoster :
       flow = [pc |-> "lifecycle", roster |-> RosterOf(n), active |-> <<>>,
               passive |-> <<>>, phase |-> 1, idx |-> 1, pairs |-> {},
               refused |-> {}]
  /\ llm_call = [pc |-> "idle", model |-> 1, retry |-> 0, tried |-> <<>>]

NextFlow ==
  \/ \E o \in CallLLMOutcomes, csv \in CsvLists(ResponseNames(flow.roster)) :
       FlowLifecycle(o, csv)
  \/ \E o \in CallLLMOutcomes, k \in IntroKinds, nm \in {1, Len(flow.roster) + 1} :
       FlowIntroduce(o, k, nm)
  \/ \E o \in CallLLMOutcomes, csv \in CsvLists(ResponseNames(flow.roster)) :
       FlowSchedule(o, csv)
  \/ FlowNextPhase

SpecFlow == InitFlow /\ [][NextFlow]_vars

\* the lifecycle and introduction passes of a day that begins with a small
\* roster, or with one at the character limit or one below it
InitCast ==
  /\ StoreInit /\ AllocInit /\ AgentInit /\ CmpInit /\ DlgInit /\ LoopInit
  /\ DayInit /\ SocInit
  /\ \E n \in (0..MaxRoster) \cup {CharacterLimit - 1, CharacterLimit} :
       flow = [pc |-> "lifecycle", roster |-> RosterOf(n), active |-> <<>>,
               passive |-> <<>>, phase |-> 1, idx |-> 1, pairs |-> {},
               refused |-> {}]
  /\ llm_call = [pc |-> "idle", model |-> 1, retry |-> 0, tried |-> <<>>]

NextCast ==
  \/ \E o \in CallLLMOutcomes, csv \in CsvLists(ResponseNames(flow.roster)) :
       FlowLifecycle(o, csv)
  \/ \E o \in CallLLMOutcomes, k \in IntroKinds, nm \in {1, Len(flow.roster) + 1} :
       FlowIntroduce(o, k, nm)

SpecCast == InitCast /\ [][NextCast]_vars

\* ------------------------------------------------------------------------
\* call_llm (llm_client.py): the models of primary_models in list order,
\* each with its retries
\* ------------------------------------------------------------------------
\* what one call of a provider handler does: it returns a text, or raises.
\* _call_openrouter raises requests' HTTPError for a response with status
\* 402 or 429 (raise_for_status, line 476: "402 Client Error: ..."), the
\* RuntimeError "OpenRouter API error [code]: ..." of line 480 for an error
\* object in the body of a response that passed raise_for_status, a
\* timeout of requests.post, or another error
AttemptKinds == {"ok", "http_402", "http_429", "api_402", "api_429",
                 "timeout", "other"}

\* lines 156-165: code_str is read between the brackets of the message
\* only when it holds the marker "OpenRouter API error ["
CodeStr(kind) ==
  IF kind = "api_402" THEN 402 ELSE IF kind = "api_429" THEN 429 ELSE None

\* line 169: "timed out" or "timeout" in the lowered message
IsTimeout(kind) == kind = "timeout"

\* lines 150-191: what follows an attempt with retry index `retry`
AfterAttempt(kind, retry) ==
  IF kind = "ok" THEN "return"
  ELSE IF CodeStr(kind) = 402 THEN "next"
  ELSE IF CodeStr(kind) = 429 \/ IsTimeout(kind)
       THEN IF retry < 1 THEN "retry" ELSE "next"
  ELSE IF retry < LLMMaxRetries - 1 THEN "retry" ELSE "next"

\* lines 83-109: the call begins with the first model of primary_models
LLM_Call ==
  /\ llm_call.pc = "idle"
  /\ llm_call' = [pc |-> "trying", model |-> 1, retry |-> 0, tried |-> <<>>]
  /\ UNCHANGED <<storeVars, allocVars, agentVars, cmpVars, dlgVars, loopVars,
                 dayVars, socVars, flow>>

\* lines 115-191: one attempt; tried is history, the attempts made on the
\* model of the moment
LLM_Attempt(kind) ==
  /\ llm_call.pc = "trying"
  /\ LET after == AfterAttempt(kind, llm_call.retry)
         tried == Append(llm_call.tried, kind)
     IN llm_call' =
          IF after = "return" THEN [llm_call EXCEPT !.pc = "returned", !.tried = tried]
          ELSE IF after = "retry"
               THEN [llm_call EXCEPT !.retry = @ + 1, !.tried = tried]
          ELSE [llm_call EXCEPT !.pc = "model_done", !.tried = tried]
  /\ UNCHANGED <<storeVars, allocVars, agentVars, cmpVars, dlgVars, loopVars,
                 dayVars, socVars, flow>>

\* line 109: the next model of the list, or the list is exhausted
LLM_NextModel ==
  /\ llm_call.pc = "model_done"
  /\ llm_call' = IF llm_call.model < NumModels
                 THEN [pc |-> "trying", model |-> llm_call.model + 1,
                       retry |-> 0, tried |-> <<>>]
                 ELSE [llm_call EXCEPT !.pc = "exhausted"]
  /\ UNCHANGED <<storeVars, allocVars, agentVars, cmpVars, dlgVars, loopVars,
                 dayVars, socVars, flow>>

\* lines 195-283: after the list, a local model's text or the fallback
\* text is returned, or RuntimeError is raised
LLM_Exhausted(outcome) ==
  /\ llm_call.pc = "exhausted"
  /\ llm_call' = [llm_call EXCEPT !.pc = outcome]
  /\ UNCHANGED <<storeVars, allocVars, agentVars, cmpVars, dlgVars, loopVars,
                 dayVars, socVars, flow>>

\* the call is over; the next one may begin
LLM_Over ==
  /\ llm_call.pc \in {"returned"} \cup CallLLMOutcomes
  /\ llm_call' = [pc |-> "idle", model |-> 1, retry |-> 0, tried |-> <<>>]
  /\ UNCHANGED <<storeVars, allocVars, agentVars, cmpVars, dlgVars, loopVars,
                 dayVars, socVars, flow>>

NextLLM ==
  \/ LLM_Call
  \/ \E k \in AttemptKinds : LLM_Attempt(k)
  \/ LLM_NextModel
  \/ \E o \in CallLLMOutcomes : LLM_Exhausted(o)
  \/ LLM_Over

SpecLLM == InitIds /\ [][NextLLM]_vars

MessagesOf(d) == {m \in DOMAIN messages : messages[m].dialogue_id = d}

\* C1: in every reachable state each dialogue has at most max_messages
\* persisted messages, whichever way the appends of its turns went (first
\* try, retry, fallback message).
C1_AtMostMaxMessages ==
  \A d \in DOMAIN dialogues : Cardinality(MessagesOf(d)) <= MaxMessages

\* C2: when a call of execute_scheduled_dialogue has returned or raised,
\* every Dialogue row it created has ended_at set.
C2_CreatedRowsEnded ==
  \A t \in Tasks :
    handlers[t].pc \in {"returned", "raised"} =>
      \A d \in handlers[t].created :
        d \in DOMAIN dialogues => dialogues[d].ended_at

\* C4: a request made while another execution with the same key is in
\* progress is refused with DialogueStateError, and creates no Dialogue row
\* and no message.
C4_DuplicateRefused ==
  [][\A t, u \in Tasks :
       ( /\ t # u
         /\ handlers[t].pc = "idle" /\ handlers'[t].pc # "idle"
         /\ InProgress(handlers[u])
         /\ KeyOf(handlers'[t]) = KeyOf(handlers[u])
         /\ handlers'[t].initiator # handlers'[t].responder )
       => /\ handlers'[t].pc = "refused"
          /\ dialogues' = dialogues
          /\ messages' = messages]_vars

\* C10: once a generation call of an execution has timed out or given
\* invalid output, goodbye_count equals goodbye_threshold and the execution
\* generates no further turn.
C10_FallbackEndsDialogue ==
  \A t \in Tasks :
    handlers[t].gen_failed =>
      /\ handlers[t].goodbye_count = GoodbyeThreshold
      /\ handlers[t].pc # "generate"

\* C11: an execution in which a message append failed on its last retry
\* does not return a dialogue to its caller: it ends by raising
\* DialogueHandlerError.
C11_AppendFailureRaises ==
  \A t \in Tasks :
    handlers[t].append_failed => handlers[t].pc # "returned"

\* C12: an end_dialogue call on a dialogue whose stored row is already
\* ended fails with DialogueStateError and changes neither the stored rows
\* nor the cached objects.
C12_ReEndRejected ==
  end_outcome.was_ended =>
    /\ end_outcome.error = "DialogueStateError"
    /\ ~end_outcome.mutated

RECURSIVE SumTokens(_)
\* sum of count_tokens over the message rows of the set ms
SumTokens(ms) ==
  IF ms = {} THEN 0
  ELSE LET m == CHOOSE x \in ms : TRUE
       IN count_tokens(messages[m].message_text) + SumTokens(ms \ {m})

\* C13: for every dialogue, the tokens of its persisted messages less the
\* tokens of its last message stay below max_tokens.
C13_TokensBelowMax ==
  \A d \in DOMAIN dialogues :
    MessagesOf(d) # {} =>
      SumTokens(MessagesOf(d))
        - count_tokens(messages[Max(MessagesOf(d))].message_text) < MaxTokens

\* C15: once the cancel signal is set no new dialogue, phase or day is
\* started, and a dialogue that was in progress when the signal was set runs
\* to its end with ended_at set
C15_CancelStartsNothing ==
  /\ started_after_stop = {}
  /\ \A i \in DOMAIN exec_log :
       (exec_log[i].cancelled /\ exec_log[i].status = "finished")
         => exec_log[i].ended_at

\* the entry at i precedes the entry at j in the order of phase, then of
\* schedule position
ScheduledBefore(i, j) ==
  \/ exec_log[i].phase < exec_log[j].phase
  \/ /\ exec_log[i].phase = exec_log[j].phase
     /\ exec_log[i].pair < exec_log[j].pair

SameDay(i, j) ==
  exec_log[i].run = exec_log[j].run /\ exec_log[i].day = exec_log[j].day

\* C16: within a day a dialogue starts only when every earlier dialogue of
\* the day, its post-dialogue updates included, has finished, and dialogues
\* start in the order of phase, then of schedule position
C16_OneAtATimeInOrder ==
  \A i, j \in DOMAIN exec_log :
    (i < j /\ SameDay(i, j)) =>
      /\ exec_log[i].status = "finished"
      /\ ScheduledBefore(i, j)

\* C16 witness: three dialogues of one day, two of a phase and one of the
\* next phase, the first two ended and past their post-dialogue updates
C16_Witness ==
  /\ Len(exec_log) >= 3
  /\ SameDay(1, 2) /\ SameDay(2, 3)
  /\ exec_log[1].phase = exec_log[2].phase
  /\ exec_log[2].phase < exec_log[3].phase
  /\ exec_log[1].ended_at /\ exec_log[2].ended_at

\* the dialogue is in the dialogue_ids of its session row and of the Day
\* row of its session
ListedInSession(d) ==
  LET sid == dialogues[d].session_id IN
  sid \in DOMAIN sessions => d \in SeqToSet(sessions[sid].dialogue_ids)

ListedInDay(d) ==
  LET sid == dialogues[d].session_id IN
  sid \in DOMAIN sessions =>
    sid \in DOMAIN days /\ d \in SeqToSet(days[sid].dialogue_ids)

\* C17: every dialogue created under a session is listed in the session's
\* dialogue_ids and in the dialogue_ids of the Day row of its session and
\* day, and stays listed through Day upserts and summary compressions
C17_DialoguesListed ==
  \A d \in DOMAIN dialogues : ListedInSession(d) /\ ListedInDay(d)

\* C18: once an append for a dialogue has returned, the NPCMemory row of
\* the NPC exists and its dialogue_ids contains the dialogue, from then on
C18_AppendLinksDialogue ==
  \A p \in appended :
    /\ p[1] \in DOMAIN npc_memories
    /\ p[2] \in npc_memories[p[1]].dialogue_ids

\* C19: in every persisted NPCMemory row messages_summary_length is the
\* length of messages_summary, after every append and every compression
\* commit, however the appends and the jobs interleave
C19_LengthMatchesBuffer ==
  \A n \in DOMAIN npc_memories :
    npc_memories[n].messages_summary_length
      = TextLen(npc_memories[n].messages_summary)

\* C19 witness: a row that a compression commit wrote with a non-empty
\* summary and to which a later append added a line
C19_Witness ==
  \E n \in DOMAIN npc_memories :
    /\ npc_memories[n].last_summarized
    /\ Len(npc_memories[n].messages_summary) >= 2
    /\ npc_memories[n].messages_summary[1].kind = "summary"
    /\ npc_memories[n].messages_summary_length >= 2

\* the NPCMemory row of n in the current session has an opinion and a stance
\* on other
HasOpinionAndStance(n, other) ==
  /\ current_session \in DOMAIN social
  /\ other \in DOMAIN social[current_session][n].opinion_on_npcs
  /\ other \in social[current_session][n].social_stance

\* C20: when a dialogue has ended and its execution is over, each of the two
\* participants has an opinion_on_npcs entry and a social_stance entry for
\* the other (opinion and stance agents are set)
C20_SocialEntriesAfterDialogue ==
  \A t \in Tasks :
    LET h == handlers[t] IN
    (h.pc \in {"returned", "raised"} /\ h.dialogue # None /\ EndedInStore(h.dialogue))
      => /\ HasOpinionAndStance(h.initiator, h.responder)
         /\ HasOpinionAndStance(h.responder, h.initiator)

\* C21: when a dialogue call has returned, every participant whose
\* reputation computation gave a value is in the reputations of the current
\* session, whatever happened to the computation of the other participant
C21_PartialReputationWritten ==
  \A t \in Tasks :
    (handlers[t].pc = "returned" /\ current_session \in DOMAIN sessions)
      => handlers[t].rep_done \subseteq sessions[current_session].reputations

\* C21: a call has returned after the computation of exactly one of two
\* participants failed, and the value of the other is in the session
C21_Witness ==
  \E t \in Tasks :
    /\ handlers[t].pc = "returned"
    /\ handlers[t].initiator # handlers[t].responder
    /\ handlers[t].rep_done = {handlers[t].initiator}
    /\ current_session \in DOMAIN sessions
    /\ sessions[current_session].reputations = {handlers[t].initiator}

\* C27: a message generation step leaves every stored row as it was: the
\* session, day, dialogue and message rows and the NPC memory rows with
\* their opinions
C27_GenerateWritesNothing ==
  [][(\E o \in GenOutcomes : Exec_Generate(GameLoopTask, o))
       => UNCHANGED <<storeVars, social>>]_vars

\* C30: at every turn boundary of an execution the dialogue holds at most
\* as many message rows as turns have been completed, retried appends
\* included
C30_OneRowPerTurn ==
  \A t \in Tasks :
    (handlers[t].pc = "loop" /\ handlers[t].dialogue # None)
      => Cardinality(MessagesOf(handlers[t].dialogue)) <= handlers[t].message_count

\* C26: an allocation that finds rows of its entity with numeric ids at or
\* above the entity's counter returns a value greater than every one of
\* these ids (sessions, dialogues and messages alike)
C26_AllocationAboveRows ==
  [][\A t \in Threads :
       (/\ GetNextId_Update(t)
        /\ RowIds(aent[t]) # {}
        /\ id_counters[aent[t]] <= Max(RowIds(aent[t])))
         => acur[t] > Max(RowIds(aent[t]))]_vars

\* the first message row of the dialogue holds a goodbye phrase
FirstSaidGoodbye(d) ==
  /\ MessagesOf(d) # {}
  /\ LET first == CHOOSE m \in MessagesOf(d) : \A k \in MessagesOf(d) : m <= k
     IN ContainsGoodbye(messages[first].message_text)

\* C28: with goodbye_threshold 2, when the first message of a dialogue held
\* a goodbye phrase and the second turn is over, the goodbye count has
\* reached the threshold: with max_messages 10 this is the only test of the
\* loop that can end the dialogue at two messages
C28_SecondTurnEndsDialogue ==
  \A t \in Tasks :
    (/\ handlers[t].pc = "loop"
     /\ handlers[t].dialogue # None
     /\ handlers[t].message_count = 2
     /\ FirstSaidGoodbye(handlers[t].dialogue))
      => handlers[t].goodbye_count >= GoodbyeThreshold

\* C22: the pair set of the phase being scheduled never holds a pair of
\* one NPC with itself, a recipient outside the day's active list, or a
\* pair together with its reverse
C22_PairSetWellFormed ==
  \A p \in flow.pairs :
    /\ p[1] # p[2]
    /\ p[2] \in SeqToSet(flow.active)
    /\ <<p[2], p[1]>> \notin flow.pairs

\* C22: the pairs of a phase are complete after responses that named the
\* asking NPC itself, a name outside the active list and the initiator of
\* a pair already in the set
C22_Witness ==
  /\ flow.pc = "schedule"
  /\ flow.idx > Len(flow.active)
  /\ flow.pairs # {}
  /\ flow.refused = {"self", "inactive", "reverse"}

\* C23: a lifecycle response that holds names, none of them in the roster,
\* makes the first two roster names active and the others passive
C23_UnknownNamesFirstTwo ==
  [][\A csv \in CsvLists(ResponseNames(flow.roster)) :
       (/\ FlowLifecycle("ok", csv)
        /\ csv # <<>>
        /\ \A i \in DOMAIN csv : csv[i] \notin SeqToSet(flow.roster))
         => /\ flow'.active = SubSeq(flow.roster, 1,
                                IF Len(flow.roster) < 2 THEN Len(flow.roster) ELSE 2)
            /\ flow'.passive = SubSeq(flow.roster, 3, Len(flow.roster))]_vars

\* C24: a failed LLM call of the lifecycle pass leaves the day running with
\* the whole roster active, and a failed LLM call of a schedule query pairs
\* the asking NPC with the first other active character
C24_LLMFailureDefaults ==
  [][\A o \in {"fallback_text", "raised"} :
       /\ FlowLifecycle(o, <<>>)
            => (flow'.pc # "aborted" /\ flow'.active = flow.roster)
       /\ (FlowSchedule(o, <<>>) /\ Available(flow.active[flow.idx], flow.active) # <<>>)
            => LET name  == flow.active[flow.idx]
                   first == Available(name, flow.active)[1]
               IN <<name, first>> \in flow'.pairs \/ <<first, name>> \in flow'.pairs]_vars

\* C25: the introduction pass changes the roster exactly when the roster
\* has fewer than 10 characters and the response is a JSON object with the
\* six named fields and no other
C25_IntroductionAddsIff ==
  [][\A o \in CallLLMOutcomes, k \in IntroKinds, nm \in {1, Len(flow.roster) + 1} :
       FlowIntroduce(o, k, nm)
         => ((flow'.roster # flow.roster)
               <=> (Len(flow.roster) < CharacterLimit /\ o = "ok" /\ k = "six_named"))]_vars

\* C29: on the model being tried, a 402 response is the last attempt, and a
\* 429 response or a timeout is followed by another attempt only when it
\* was the first attempt on this model
C29_RetryPolicy ==
  \A i \in DOMAIN llm_call.tried :
    /\ llm_call.tried[i] \in {"http_402", "api_402"} => i = Len(llm_call.tried)
    /\ (llm_call.tried[i] \in {"http_429", "api_429", "timeout"} /\ i > 1)
         => i = Len(llm_call.tried)

\* the append of thread t has read the row of NPC n and has not saved it yet
Appending(t, n) == mpc[t] \in {"summarize", "start", "save"} /\ mnpc[t] = n

\* C31: no two read-modify-write sequences on the same NPCMemory row
\* overlap: while a summarization thread is between its read of the row and
\* its write, no append is between its own read and write of that row
C31_NoOverlappingUpdates ==
  \A j \in DOMAIN jobs :
    jobs[j].pc = "commit" => ~ Appending(LoopThread, jobs[j].npc)

\* C32: once a compression job has committed its result for an NPC, no
\* later write of the row takes last_summarized from set back to unset
C32_LastSummarizedStays ==
  [][\A n \in DOMAIN npc_memories :
       npc_memories[n].last_summarized => npc_memories'[n].last_summarized]_vars

\* the lines of the stored buffer of job j's NPC that were not part of the
\* text the job was started on: they were appended while it was in flight
AppendedInFlight(j) ==
  {c \in SeqToSet(npc_memories[jobs[j].npc].messages_summary) :
     c.kind = "line" /\ c \notin SeqToSet(jobs[j].source_text)}

\* C33: a line appended to an NPC buffer while a compression job for that
\* buffer is in flight is still in the buffer after the job commits
C33_InFlightLinesKept ==
  [][\A j \in DOMAIN jobs :
       (jobs[j].pc = "commit" /\ jobs'[j].pc = "finally")
         => AppendedInFlight(j) \subseteq
              SeqToSet(npc_memories'[jobs[j].npc].messages_summary)]_vars

\* C34: at most one compression job for a given (session_id, day) key is
\* in flight at any time: an over-threshold append to a day summary whose
\* job is still running starts no second job
C34_OneJobPerDay ==
  \A i, j \in DOMAIN dayjob :
    (i # j /\ dayjob[i].pc # "done" /\ dayjob[j].pc # "done")
      => dayjob[i].session # dayjob[j].session

\* the positions of execute_scheduled_dialogue at which an LLM call of the
\* task is in progress: generate_message, the knowledge and stance agents,
\* the reputation agent
LLMInProgress(h) == h.pc \in {"generate", "post_updates", "reputation"}

Finished(h) == h.pc \in {"returned", "raised"}

\* C36: when an execution of a dialogue finishes, whether it returns or
\* raises, its key is no longer in the active set, so a request for the
\* same pair and phase passes the duplicate check again
C36_KeyGoneAtFinish ==
  [][\A t \in Tasks :
       (~ Finished(handlers[t]) /\ Finished(handlers'[t]))
         => KeyOf(handlers'[t]) \notin handler_active_dialogues']_vars

\* an execution that had started its dialogue has raised after its cleanup
\* and its key has left the set
C36_Witness ==
  /\ handlers[GameLoopTask].pc = "raised"
  /\ handlers[GameLoopTask].dialogue # None
  /\ KeyOf(handlers[GameLoopTask]) \notin handler_active_dialogues

\* the step adds a message row to the dialogue of task t's execution
AppendsFor(t) ==
  \E m \in DOMAIN messages' \ DOMAIN messages :
    messages'[m].dialogue_id = handlers[t].dialogue

\* C37: a message is appended to a dialogue only while the key of its
\* execution is in DialogueHandler._active_dialogues
C37_AppendOnlyWhileActive ==
  [][\A t \in Tasks :
       (handlers[t].pc \in {"append", "fallback_append"} /\ AppendsFor(t))
         => KeyOf(handlers[t]) \in handler_active_dialogues]_vars

\* C38: after a message-generation call has timed out and the fallback
\* text has been appended in its place, the abandoned call makes no later
\* change to stored state
C38_AbandonedCallSilent ==
  [][\A t \in Tasks : \A a \in handlers[t].abandoned :
       handlers[t].message_count > a.turn
         => (a \in handlers'[t].abandoned \/ social' = social)]_vars

\* C39: after a simulation is cancelled and later resumed with the same
\* session id, no dialogue is started in a phase of a day whose scheduled
\* dialogues had already been executed
C39_NoPhaseExecutedAgain ==
  [][(gl.pc = "conv_start" /\ gl'.pc = "conv_running")
       => <<gl.current_day, gl.phase>> \notin gl.done_phases]_vars

\* C40: a compression job commits its result only to the session whose
\* buffer it read, even if MemoryAgent.current_session has changed while
\* the job was running: no session summary holds lines of another session
C40_CommitToSourceSession ==
  \A sid \in DOMAIN sessions : sessions[sid].session_summary \subseteq {sid}

\* C14: a run of one full day on a fresh session followed, once that loop
\* is over, by a run of one more full day under the same session id leaves
\* the persisted session with current_day = 3
C14_ResumeDayThree ==
  (gl.pc = "done" /\ day_log = <<1, 1>>) => db_current_day = 3

InFlight(n) == {j \in DOMAIN jobs : jobs[j].npc = n /\ jobs[j].pc # "done"}

\* C7: at most one compression job for a given NPC is in flight at any time.
C7_OneJobPerNpc == \A n \in NPCs : Cardinality(InFlight(n)) <= 1

\* C8: once the job started by the one over-threshold append of an NPC has
\* run to its end after its LLM call returned, and no append is under way,
\* the persisted messages_summary_length is at most max_context_length and
\* last_summarized is set.
C8_CompressedAfterJob ==
  \A n \in NPCs :
    ( /\ overCount[n] = 1
      /\ \E j \in DOMAIN jobs : jobs[j].npc = n /\ jobs[j].pc = "done" /\ jobs[j].llm = "ok"
      /\ \A t \in Threads : mpc[t] = "idle" )
    => /\ n \in DOMAIN npc_memories
       /\ npc_memories[n].messages_summary_length <= MaxCtx
       /\ npc_memories[n].last_summarized

\* C9: a job whose LLM call failed leaves the stored buffer as it was, and
\* when it ends the in-flight marker of its NPC is cleared.
C9_FailedJobLeavesBuffer ==
  [][\A j \in DOMAIN jobs :
       LLMFailed(jobs[j].llm) =>
         /\ (jobs[j].pc # "done" /\ jobs'[j].pc # jobs[j].pc)
               => npc_memories' = npc_memories
         /\ (jobs[j].pc = "finally" /\ jobs'[j].pc = "done")
               => jobs[j].npc \notin summarizing_npcs']_vars

====
